---- MODULE Spec2Model ----
(***************************************************************************)
(* Model of the code-analysis handlers of ai-code-explorer:                *)
(*   searchCode, analyzeCodeFile, naturalLanguageQuery,                    *)
(*   getDependencyVisualization, getCodeIssues                             *)
(* over the tables of server/src/db/schema.ts.                             *)
(*                                                                         *)
(* Strings are TLA+ strings; a character is a string of length 1.          *)
(* Nullable columns hold <<>> (null) or <<v>> (a value).                   *)
(* relevance_score is held in tenths, complexity_score in hundredths.      *)
(* A select without ORDER BY is modelled as returning rows in table order. *)
(* A handler is one action; for the interleaving of concurrent requests    *)
(* analyzeCodeFile and searchCode are also given statement by statement,   *)
(* with calls holding each request's position and local constants.         *)
(***************************************************************************)
EXTENDS Integers, Sequences, FiniteSets, TLC

VARIABLES repositories, code_files, code_functions, code_dependencies,
          code_issues, search_queries, now, ret, db_ops, calls

vars == <<repositories, code_files, code_functions, code_dependencies,
          code_issues, search_queries, now, ret, db_ops, calls>>

-----------------------------------------------------------------------------
(* Bounds of the model *)

MaxRepos == 1
MaxFiles == 1
MaxIssues == 1
MaxLog == 2
MaxClock == 4
MaxFunctions == 3
MaxFunctionRows == 11
MaxDeps == 2
MaxCalls == 2
MaxTokens == 3

-----------------------------------------------------------------------------
(* Nullable values *)

Null == <<>>
Some(v) == <<v>>
IsNull(o) == o = <<>>
Val(o) == o[1]

-----------------------------------------------------------------------------
(* JavaScript string primitives *)

CharAt(s, i) == SubSeq(s, i, i)

UpperLetters == "ABCDEFGHIJKLMNOPQRSTUVWXYZ"
LowerLetters == "abcdefghijklmnopqrstuvwxyz"
Digits == "0123456789"

\* the characters of a string, as a set
CharSet(alphabet) == { CharAt(alphabet, i) : i \in 1..Len(alphabet) }

\* position of character c in alphabet, 0 when absent
IndexIn(alphabet, c) ==
  IF \E i \in 1..Len(alphabet) : CharAt(alphabet, i) = c
  THEN CHOOSE i \in 1..Len(alphabet) : CharAt(alphabet, i) = c
  ELSE 0

UpperSet == CharSet(UpperLetters)
WordSet == CharSet(UpperLetters) \cup CharSet(LowerLetters)
             \cup CharSet(Digits) \cup {"_"}
LowerOf == [c \in UpperSet |-> CharAt(LowerLetters, IndexIn(UpperLetters, c))]

LowerChar(c) == IF c \in UpperSet THEN LowerOf[c] ELSE c

\* String.prototype.toLowerCase, character by character
RECURSIVE ToLowerCase(_)
ToLowerCase(s) ==
  IF Len(s) = 0 THEN ""
  ELSE IF Len(s) = 1 THEN LowerChar(s)
  ELSE LET half == Len(s) \div 2
       IN  ToLowerCase(SubSeq(s, 1, half))
             \o ToLowerCase(SubSeq(s, half + 1, Len(s)))

\* \s of a JavaScript regular expression, and the set trimmed by trim()
IsSpace(c) == c \in {" ", "\t", "\n", "\r"}

\* \w of a JavaScript regular expression
IsWord(c) == c \in WordSet

StartsWithAt(s, p, i) ==
  /\ i + Len(p) - 1 <= Len(s)
  /\ SubSeq(s, i, i + Len(p) - 1) = p

StartsWith(s, p) == StartsWithAt(s, p, 1)

Includes(s, p) == \E i \in 1..(Len(s) + 1) : StartsWithAt(s, p, i)

RECURSIVE TrimStart(_)
TrimStart(s) ==
  IF s # "" /\ IsSpace(Head(s)) THEN TrimStart(Tail(s)) ELSE s

RECURSIVE TrimEnd(_)
TrimEnd(s) ==
  IF s # "" /\ IsSpace(CharAt(s, Len(s)))
  THEN TrimEnd(SubSeq(s, 1, Len(s) - 1))
  ELSE s

Trim(s) == TrimEnd(TrimStart(s))

\* content.split('\n'): a string without newline is one line; otherwise the
\* lines before a newline followed by the lines after it (the newline taken
\* is the one nearest the middle, which keeps the recursion shallow)
RECURSIVE SplitLines(_)
SplitLines(s) ==
  LET newlines == { i \in 1..Len(s) : CharAt(s, i) = "\n" }
      Distance(i) == IF 2 * i >= Len(s) THEN 2 * i - Len(s) ELSE Len(s) - 2 * i
  IN  IF newlines = {} THEN <<s>>
      ELSE LET p == CHOOSE i \in newlines :
                      \A j \in newlines : Distance(i) <= Distance(j)
           IN  SplitLines(SubSeq(s, 1, p - 1))
                 \o SplitLines(SubSeq(s, p + 1, Len(s)))

\* lines.join('\n')
RECURSIVE JoinLines(_)
JoinLines(ls) ==
  IF ls = <<>> THEN ""
  ELSE IF Len(ls) = 1 THEN ls[1]
  ELSE ls[1] \o "\n" \o JoinLines(Tail(ls))

Min(a, b) == IF a <= b THEN a ELSE b
Max(a, b) == IF a >= b THEN a ELSE b

\* Array.prototype.slice(0, n)
Take(seq, n) == SubSeq(seq, 1, Min(n, Len(seq)))

-----------------------------------------------------------------------------
(* PostgreSQL ILIKE: % any run, _ any one character, \ escapes the next *)

\* does s from position i on match pattern p from position j on
RECURSIVE LikeAt(_, _, _, _)
LikeAt(s, i, p, j) ==
  IF j > Len(p) THEN i > Len(s)
  ELSE IF CharAt(p, j) = "%"
       THEN \/ j = Len(p)
            \/ \E k \in i..(Len(s) + 1) : LikeAt(s, k, p, j + 1)
  ELSE IF CharAt(p, j) = "_"
       THEN i <= Len(s) /\ LikeAt(s, i + 1, p, j + 1)
  ELSE IF CharAt(p, j) = "\\" /\ j < Len(p)
       THEN /\ i <= Len(s)
            /\ CharAt(s, i) = CharAt(p, j + 1)
            /\ LikeAt(s, i + 1, p, j + 2)
  ELSE i <= Len(s) /\ CharAt(s, i) = CharAt(p, j) /\ LikeAt(s, i + 1, p, j + 1)

LikeMatch(s, p) == LikeAt(s, 1, p, 1)

\* ilike(column, pattern); a null column never matches
ILike(s, p) == LikeMatch(ToLowerCase(s), ToLowerCase(p))
ILikeNullable(o, p) == ~IsNull(o) /\ ILike(Val(o), p)

-----------------------------------------------------------------------------
(* Regular-expression scanning (positions are 1-based; 0 means no match) *)

RECURSIVE SkipSpaces(_, _)
SkipSpaces(s, i) ==
  IF i <= Len(s) /\ IsSpace(CharAt(s, i)) THEN SkipSpaces(s, i + 1) ELSE i

RECURSIVE SkipWord(_, _)
SkipWord(s, i) ==
  IF i <= Len(s) /\ IsWord(CharAt(s, i)) THEN SkipWord(s, i + 1) ELSE i

IsCharAt(s, i, c) == i <= Len(s) /\ CharAt(s, i) = c

\* one match of /kw\s*\(/ starting at i: the position after the match, or 0
KeywordParenAt(s, kw, i) ==
  IF StartsWithAt(s, kw, i)
  THEN LET j == SkipSpaces(s, i + Len(kw))
       IN  IF IsCharAt(s, j, "(") THEN j + 1 ELSE 0
  ELSE 0

\* the least element of a non-empty set of positions
Least(positions) == CHOOSE i \in positions : \A j \in positions : i <= j

\* (content.match(/kw\s*\(/g) || []).length for the part of s from i on:
\* the leftmost match, then the matches behind its end
RECURSIVE CountKeywordParen(_, _, _)
CountKeywordParen(s, kw, i) ==
  LET starts == { k \in i..Len(s) : KeywordParenAt(s, kw, k) # 0 }
  IN  IF starts = {} THEN 0
      ELSE 1 + CountKeywordParen(s, kw, KeywordParenAt(s, kw, Least(starts)))

\* one match of /function\s+\w+/ starting at i: the position after it, or 0
FunctionWordAt(s, i) ==
  IF StartsWithAt(s, "function", i)
  THEN LET j == SkipSpaces(s, i + 8)
           k == SkipWord(s, j)
       IN  IF j > i + 8 /\ k > j THEN k ELSE 0
  ELSE 0

\* (content.match(/function\s+\w+/g) || []).length for the part of s from i
\* on: the leftmost match, then the matches behind its end
RECURSIVE CountFunctionWord(_, _)
CountFunctionWord(s, i) ==
  LET starts == { k \in i..Len(s) : FunctionWordAt(s, k) # 0 }
  IN  IF starts = {} THEN 0
      ELSE 1 + CountFunctionWord(s, FunctionWordAt(s, Least(starts)))

\* an optional group (word\s+)? at i: the position after it
OptionalWordSpaces(s, word, i) ==
  LET j == SkipSpaces(s, i + Len(word))
  IN  IF StartsWithAt(s, word, i) /\ j > i + Len(word) THEN j ELSE i

\* position of the first ")" at or after i, or 0
FirstCloseParen(s, i) ==
  IF \E k \in i..Len(s) : CharAt(s, k) = ")"
  THEN CHOOSE k \in i..Len(s) :
         /\ CharAt(s, k) = ")"
         /\ \A j \in i..(k - 1) : CharAt(s, j) # ")"
  ELSE 0

\* line.match(/^(export\s+)?(async\s+)?function\s+(\w+)\s*\([^)]*\)/):
\* <<>> when the line does not match, <<name>> (group 3) when it does
FunctionMatch(line) ==
  LET p1 == OptionalWordSpaces(line, "export", 1)
      p2 == OptionalWordSpaces(line, "async", p1)
      r  == SkipSpaces(line, p2 + 8)
      w  == SkipWord(line, r)
      x  == SkipSpaces(line, w)
  IN  IF /\ StartsWithAt(line, "function", p2)
         /\ r > p2 + 8
         /\ w > r
         /\ IsCharAt(line, x, "(")
         /\ FirstCloseParen(line, x + 1) # 0
      THEN <<SubSeq(line, r, w - 1)>>
      ELSE <<>>

DeclKeywordAt(line, i) ==
  IF StartsWithAt(line, "const", i) THEN "const"
  ELSE IF StartsWithAt(line, "let", i) THEN "let"
  ELSE IF StartsWithAt(line, "var", i) THEN "var"
  ELSE ""

\* line.match(/^(export\s+)?(const|let|var)\s+(\w+)\s*=\s*(async\s*)?\([^)]*\)\s*=>/):
\* <<>> when the line does not match, <<name>> (group 3) when it does
ArrowMatch(line) ==
  LET p1 == OptionalWordSpaces(line, "export", 1)
      kw == DeclKeywordAt(line, p1)
      q  == p1 + Len(kw)
      r  == SkipSpaces(line, q)
      w  == SkipWord(line, r)
      x  == SkipSpaces(line, w)
      y  == SkipSpaces(line, x + 1)
      z  == IF StartsWithAt(line, "async", y)
            THEN SkipSpaces(line, y + 5) ELSE y
      c  == FirstCloseParen(line, z + 1)
  IN  IF /\ kw # ""
         /\ r > q
         /\ w > r
         /\ IsCharAt(line, x, "=")
         /\ IsCharAt(line, z, "(")
         /\ c # 0
         /\ StartsWithAt(line, "=>", SkipSpaces(line, c + 1))
      THEN <<SubSeq(line, r, w - 1)>>
      ELSE <<>>

-----------------------------------------------------------------------------
(* analyze_code_file.ts: the pure analysis functions *)

\* language ?? fallback: only null gives way to the fallback
LanguageOrNull(language, fallback) ==
  IF IsNull(language) THEN fallback ELSE Val(language)

\* language || fallback
LanguageOr(language, fallback) ==
  IF IsNull(language) \/ Val(language) = "" THEN fallback ELSE Val(language)

\* a summary that carries the time it was written at
generateAISummaryDated(content, language) ==
  "This " \o LanguageOr(language, "code") \o " file was analyzed at "
    \o ToString(now)

generateAISummary(content, language) ==
  LET lines == Len(SplitLines(content))
      hasImports == Includes(content, "import") \/ Includes(content, "require")
      hasExports == Includes(content, "export")
                      \/ Includes(content, "module.exports")
      hasClasses == Includes(content, "class ")
                      \/ Includes(content, "interface ")
      hasFunctions == \/ Includes(content, "function ")
                      \/ Includes(content, "const ")
                      \/ Includes(content, "let ")
      summary == "This " \o LanguageOr(language, "code") \o " file contains "
                   \o ToString(lines) \o " lines. "
                   \o (IF hasImports
                       THEN "It includes external dependencies. " ELSE "")
                   \o (IF hasExports
                       THEN "It exports functionality for use by other modules. "
                       ELSE "")
                   \o (IF hasClasses
                       THEN "It defines classes or interfaces. " ELSE "")
                   \o (IF hasFunctions
                       THEN "It contains function definitions. " ELSE "")
  IN  Trim(summary)

\* a loop whose counter does not go below zero
RECURSIVE BraceDepthFromZero(_, _, _, _)
BraceDepthFromZero(content, i, currentDepth, maxDepth) ==
  LET braces == { k \in i..Len(content) : CharAt(content, k) \in {"{", "}"} }
  IN  IF braces = {} THEN maxDepth
      ELSE LET k == Least(braces)
           IN  IF CharAt(content, k) = "{"
               THEN BraceDepthFromZero(content, k + 1, currentDepth + 1,
                                       Max(maxDepth, currentDepth + 1))
               ELSE BraceDepthFromZero(content, k + 1,
                                       Max(0, currentDepth - 1), maxDepth)

\* the loop of calculateMaxBraceDepth from character i on; the characters
\* that are no brace change nothing, so the loop is followed from brace to
\* brace
RECURSIVE BraceDepthFrom(_, _, _, _)
BraceDepthFrom(content, i, currentDepth, maxDepth) ==
  LET braces == { k \in i..Len(content) : CharAt(content, k) \in {"{", "}"} }
  IN  IF braces = {} THEN maxDepth
      ELSE LET k == Least(braces)
           IN  IF CharAt(content, k) = "{"
               THEN BraceDepthFrom(content, k + 1, currentDepth + 1,
                                   Max(maxDepth, currentDepth + 1))
               ELSE BraceDepthFrom(content, k + 1, currentDepth - 1, maxDepth)

\* the depth at the end of the content, not the deepest one
calculateFinalBraceDepth(content) ==
  Cardinality({ i \in 1..Len(content) : CharAt(content, i) = "{" })
    - Cardinality({ i \in 1..Len(content) : CharAt(content, i) = "}" })

calculateMaxBraceDepth(content) == BraceDepthFrom(content, 1, 0, 0)

\* a sum that leaves out the function count
RawComplexityOfControlFlow(content) ==
  1000
  + 1000 * CountKeywordParen(content, "if", 1)
  + 1000 * CountKeywordParen(content, "for", 1)
  + 1000 * CountKeywordParen(content, "while", 1)
  + 1000 * CountKeywordParen(content, "switch", 1)
  + 1000 * CountKeywordParen(content, "catch", 1)
  + 500 * calculateMaxBraceDepth(content)

\* the sum accumulated by calculateComplexityScore before rounding,
\* in thousandths
RawComplexity(content) ==
  1000
  + 1000 * CountKeywordParen(content, "if", 1)
  + 1000 * CountKeywordParen(content, "for", 1)
  + 1000 * CountKeywordParen(content, "while", 1)
  + 1000 * CountKeywordParen(content, "switch", 1)
  + 1000 * CountKeywordParen(content, "catch", 1)
  + 500 * calculateMaxBraceDepth(content)
  + 300 * CountFunctionWord(content, 1)

\* Math.round(x * 100) / 100 of a value in thousandths, in hundredths
RoundHundredths(thousandths) == (thousandths + 5) \div 10

calculateComplexityScore(content) == RoundHundredths(RawComplexity(content))

\* the character loop of one line in extractFunctions, from character k on;
\* closed is TRUE when the loop left through its break
RECURSIVE ScanLineBraces(_, _, _, _)
ScanLineBraces(line, k, braceCount, foundOpenBrace) ==
  IF k > Len(line)
  THEN [braceCount |-> braceCount, foundOpenBrace |-> foundOpenBrace,
        closed |-> FALSE]
  ELSE IF CharAt(line, k) = "{"
       THEN ScanLineBraces(line, k + 1, braceCount + 1, TRUE)
  ELSE IF CharAt(line, k) = "}"
       THEN IF foundOpenBrace /\ braceCount - 1 = 0
            THEN [braceCount |-> 0, foundOpenBrace |-> TRUE, closed |-> TRUE]
            ELSE ScanLineBraces(line, k + 1, braceCount - 1, foundOpenBrace)
  ELSE ScanLineBraces(line, k + 1, braceCount, foundOpenBrace)

\* a function that always reaches to the last line
FindLineEndOfFile(lines, j, braceCount, foundOpenBrace, lineEnd) == Len(lines)

\* the loop "for (let j = i; ...)" of extractFunctions; j is 1-based
RECURSIVE FindLineEnd(_, _, _, _, _)
FindLineEnd(lines, j, braceCount, foundOpenBrace, lineEnd) ==
  IF j > Len(lines) THEN lineEnd
  ELSE LET r == ScanLineBraces(lines[j], 1, braceCount, foundOpenBrace)
       IN  IF r.closed THEN j
           ELSE IF r.foundOpenBrace /\ r.braceCount = 0 THEN lineEnd
           ELSE FindLineEnd(lines, j + 1, r.braceCount, r.foundOpenBrace,
                            lineEnd)

\* let lineEnd = 0
InitialLineEndZero(lineStart) == 0

\* let lineEnd = lineStart
InitialLineEnd(lineStart) == lineStart

\* the records pushed by extractFunctions for line i (1-based)
FunctionsOfLine(lines, i) ==
  LET line == Trim(lines[i])
      functionMatch == FunctionMatch(line)
      arrowMatch == ArrowMatch(line)
  IN  (IF functionMatch # <<>>
       THEN <<[name |-> functionMatch[1], signature |-> line,
               line_start |-> i,
               line_end |-> FindLineEnd(lines, i, 0, FALSE,
                                       InitialLineEnd(i))]>>
       ELSE <<>>)
      \o
      (IF arrowMatch # <<>>
       THEN <<[name |-> arrowMatch[1], signature |-> line,
               line_start |-> i, line_end |-> i]>>
       ELSE <<>>)

\* the records of the last line first
RECURSIVE FunctionsFromLineBackwards(_, _)
FunctionsFromLineBackwards(lines, i) ==
  IF i > Len(lines) THEN <<>>
  ELSE FunctionsFromLineBackwards(lines, i + 1) \o FunctionsOfLine(lines, i)

RECURSIVE FunctionsFromLine(_, _)
FunctionsFromLine(lines, i) ==
  IF i > Len(lines) THEN <<>>
  ELSE FunctionsOfLine(lines, i) \o FunctionsFromLine(lines, i + 1)

\* an extractor that scans the content of every language
extractFunctionsOfAnyLanguage(content, language) ==
  FunctionsFromLine(SplitLines(content), 1)

extractFunctions(content, language) ==
  IF \/ language = Some("javascript")
     \/ language = Some("typescript")
     \/ IsNull(language)
     \/ language = Some("")
  THEN FunctionsFromLine(SplitLines(content), 1)
  ELSE <<>>

-----------------------------------------------------------------------------
(* The store: one sequence of rows per table of db/schema.ts, in insertion *)
(* order; a serial id is the row's position.  now is the latest time read  *)
(* from the clock.  ret is what the last handler call returned or threw;   *)
(* db_ops lists the statements that call executed.                         *)
(* calls[p] is the request in flight in slot p of the server.              *)

NoCall == [op |-> "none"]

Procs == 1..MaxCalls

Idle == [op |-> "none", pc |-> "idle"]

\* a new request takes the first free slot
FreeSlot(p) ==
  /\ calls[p].pc = "idle"
  /\ \A q \in Procs : q < p => calls[q].pc # "idle"

Init ==
  /\ repositories = <<>>
  /\ code_files = <<>>
  /\ code_functions = <<>>
  /\ code_dependencies = <<>>
  /\ code_issues = <<>>
  /\ search_queries = <<>>
  /\ now = 1
  /\ ret = NoCall
  /\ db_ops = <<>>
  /\ calls = [p \in Procs |-> Idle]

\* db.insert(repositoriesTable)
InsertRepository ==
  /\ Len(repositories) < MaxRepos
  /\ repositories' = Append(repositories,
       [id |-> Len(repositories) + 1, last_analyzed |-> Null])
  /\ ret' = NoCall
  /\ UNCHANGED calls
  /\ db_ops' = <<>>
  /\ UNCHANGED <<code_files, code_functions, code_issues, search_queries, now>>
  /\ UNCHANGED code_dependencies

\* db.insert(codeFilesTable).values(f); maxFiles bounds the file table
InsertCodeFileWithin(f, maxFiles) ==
  /\ Len(code_files) < maxFiles
  /\ code_files' = Append(code_files,
       [id |-> Len(code_files) + 1,
        repository_id |-> f.repository_id,
        path |-> f.path,
        content |-> f.content,
        language |-> f.language,
        size |-> Len(f.content),
        ai_summary |-> f.ai_summary,
        complexity_score |-> Null,
        last_updated |-> now,
        created_at |-> now])
  /\ ret' = NoCall
  /\ UNCHANGED calls
  /\ db_ops' = <<>>
  /\ UNCHANGED <<repositories, code_functions, code_issues, search_queries,
                 now>>
  /\ UNCHANGED code_dependencies

InsertCodeFile(f) == InsertCodeFileWithin(f, MaxFiles)

\* db.insert(codeIssuesTable).values(x)
InsertCodeIssue(x) ==
  /\ Len(code_issues) < MaxIssues
  /\ code_issues' = Append(code_issues,
       [id |-> Len(code_issues) + 1,
        file_id |-> x.file_id,
        issue_type |-> x.issue_type,
        severity |-> x.severity,
        description |-> x.description])
  /\ ret' = NoCall
  /\ UNCHANGED calls
  /\ db_ops' = <<>>
  /\ UNCHANGED <<repositories, code_files, code_functions, search_queries,
                 now>>
  /\ UNCHANGED code_dependencies

\* db.insert(codeDependenciesTable).values(d)
InsertCodeDependency(d) ==
  /\ Len(code_dependencies) < MaxDeps
  /\ code_dependencies' = Append(code_dependencies,
       [id |-> Len(code_dependencies) + 1,
        repository_id |-> d.repository_id,
        from_file |-> d.from_file,
        to_file |-> d.to_file,
        dependency_type |-> d.dependency_type])
  /\ ret' = NoCall
  /\ UNCHANGED calls
  /\ db_ops' = <<>>
  /\ UNCHANGED <<repositories, code_files, code_functions, code_issues,
                 search_queries, now>>

-----------------------------------------------------------------------------
(* analyze_code_file.ts: analyzeCodeFile *)

\* the largest value a numeric(5, 2) column holds, in hundredths
NumericMax == 99999

\* the text PostgreSQL keeps in a numeric(5, 2) column for a value given in
\* hundredths: always two decimals
NumericText(hundredths) ==
  ToString(hundredths \div 100) \o "."
    \o ToString((hundredths % 100) \div 10) \o ToString(hundredths % 10)

RECURSIVE ParseDigits(_, _)
ParseDigits(s, acc) ==
  IF s = "" \/ IndexIn(Digits, Head(s)) = 0 THEN acc
  ELSE ParseDigits(Tail(s), 10 * acc + IndexIn(Digits, Head(s)) - 1)

\* parseFloat of a decimal text, in hundredths (digits past the second
\* decimal do not occur in a numeric(5, 2) column)
parseFloat(text) ==
  LET intLen == SkipWord(text, 1) - 1
      intPart == ParseDigits(SubSeq(text, 1, intLen), 0)
      frac == IF IsCharAt(text, intLen + 1, ".")
              THEN SubSeq(text, intLen + 2, Len(text)) ELSE ""
      tenths == IF Len(frac) >= 1 THEN ParseDigits(CharAt(frac, 1), 0) ELSE 0
      hundredths == IF Len(frac) >= 2 THEN ParseDigits(CharAt(frac, 2), 0)
                    ELSE 0
  IN  100 * intPart + 10 * tenths + hundredths

\* updatedFile.complexity_score ? parseFloat(...) : null
ParseStoredScore(stored) ==
  IF IsNull(stored) \/ Val(stored) = "" THEN Null
  ELSE Some(parseFloat(Val(stored)))

\* an insert that skips the functions the file already has a row for
FunctionRowsNewNames(functions, fileId, firstId) ==
  LET IsNew(f) ==
        \A k \in 1..Len(code_functions) :
          code_functions[k].file_id # fileId \/ code_functions[k].name # f.name
      new == SelectSeq(functions, IsNew)
  IN  [i \in 1..Len(new) |->
         [id |-> firstId + i - 1,
          file_id |-> fileId,
          name |-> new[i].name,
          signature |-> new[i].signature,
          line_start |-> new[i].line_start,
          line_end |-> new[i].line_end,
          ai_explanation |-> Null,
          complexity_score |-> Null]]

\* the rows appended by db.insert(codeFunctionsTable).values(functionInputs)
RECURSIVE FunctionRows(_, _, _)
FunctionRows(functions, fileId, firstId) ==
  IF functions = <<>> THEN <<>>
  ELSE <<[id |-> firstId,
          file_id |-> fileId,
          name |-> Head(functions).name,
          signature |-> Head(functions).signature,
          line_start |-> Head(functions).line_start,
          line_end |-> Head(functions).line_end,
          ai_explanation |-> Null,
          complexity_score |-> Null]>>
       \o FunctionRows(Tail(functions), fileId, firstId + 1)

\* a message that does not name the id
NotFoundMessageNoId(fileId) == "Code file not found"

\* the message of the error thrown when no file row has the id
NotFoundMessage(fileId) ==
  "Code file with ID " \o ToString(fileId) \o " not found"

\* an update statement without its where clause
UpdatesEveryRow(row, fileId) == TRUE

\* line 31: the where clause of the update statement
UpdatesRow(row, fileId) == row.id = fileId

\* dates are the values new Date() may take in this call; the clock does not
\* run backwards; maxRows bounds the function table
analyzeCodeFileWithin(fileId, dates, maxRows) ==
  LET HasId(row) == row.id = fileId
      existingFiles == SelectSeq(code_files, HasId)
  IN
  IF Len(existingFiles) = 0
  THEN /\ ret' = [op |-> "analyzeCodeFile", status |-> "error",
                  fileId |-> fileId,
                  message |-> NotFoundMessage(fileId)]
       /\ UNCHANGED calls
       /\ db_ops' = <<"select code_files">>
       /\ UNCHANGED <<repositories, code_files, code_functions, code_issues,
                      search_queries, now>>
       /\ UNCHANGED code_dependencies
  ELSE
    LET existingFile == existingFiles[1]
        aiSummary == generateAISummary(existingFile.content,
                                       existingFile.language)
        complexityScore == calculateComplexityScore(existingFile.content)
        Updated(row, date) ==
          IF UpdatesRow(row, fileId)
          THEN [row EXCEPT !.ai_summary = Some(aiSummary),
                           !.complexity_score =
                              Some(NumericText(complexityScore)),
                           !.last_updated = date]
          ELSE row
        functions == extractFunctions(existingFile.content,
                                      existingFile.language)
        functionRows == FunctionRows(functions, fileId,
                                     Len(code_functions) + 1)
    IN
    IF complexityScore > NumericMax
    THEN \* the update is rejected: numeric field overflow
         /\ ret' = [op |-> "analyzeCodeFile", status |-> "error",
                    fileId |-> fileId,
                    message |-> "numeric field overflow"]
         /\ UNCHANGED calls
         /\ db_ops' = <<"select code_files", "update code_files">>
         /\ UNCHANGED <<repositories, code_files, code_functions, code_issues,
                        search_queries, now>>
         /\ UNCHANGED code_dependencies
    ELSE
         /\ Len(code_functions) + Len(functions) <= maxRows
         /\ \E date \in dates :
              /\ date >= now
              /\ now' = date
              /\ code_files' =
                   [i \in 1..Len(code_files) |-> Updated(code_files[i], date)]
              /\ ret' = [op |-> "analyzeCodeFile", status |-> "ok",
                         fileId |-> fileId,
                         value |-> [Updated(existingFile, date) EXCEPT
                                      !.complexity_score = ParseStoredScore(@)]]
         /\ code_functions' = code_functions \o functionRows
         /\ UNCHANGED calls
         /\ db_ops' = <<"select code_files", "update code_files">>
              \o (IF Len(functions) > 0
                  THEN <<"insert code_functions">> ELSE <<>>)
         /\ UNCHANGED <<repositories, code_issues, search_queries>>
         /\ UNCHANGED code_dependencies

analyzeCodeFile(fileId, dates) ==
  analyzeCodeFileWithin(fileId, dates, MaxFunctions)

-----------------------------------------------------------------------------
(* analyze_code_file.ts: analyzeCodeFile, statement by statement.          *)
(* Each await is a step of its own, so that the statements of two requests *)
(* interleave; a constant of the request holds <<>> until it is assigned.  *)

AnalyzeCall(fileId) ==
  [op |-> "analyzeCodeFile", pc |-> "select", fileId |-> fileId,
   status |-> "running", message |-> "",
   existingFile |-> Null, aiSummary |-> Null, complexityScore |-> Null,
   updatedFiles |-> Null, functions |-> Null, value |-> Null]

\* the request ends by throwing
Thrown(call, message) ==
  [call EXCEPT !.pc = "done", !.status = "error", !.message = message]

\* an insert that leaves out a file which already has function rows
InsertedFunctionsOnce(functions, fileId) ==
  LET OfFile(row) == row.file_id = fileId
  IN  IF Len(SelectSeq(code_functions, OfFile)) > 0
      THEN <<>>
      ELSE FunctionRows(functions, fileId, Len(code_functions) + 1)

\* lines 40-50: the rows the insert statement appends
InsertedFunctions(functions, fileId) ==
  FunctionRows(functions, fileId, Len(code_functions) + 1)

\* lines 9-22: the select, the existence test, and the summary and the score
\* computed from the selected row
AnalyzeSelect(p, fileId) ==
  LET HasId(row) == row.id = fileId
      existingFiles == SelectSeq(code_files, HasId)
      call == AnalyzeCall(fileId)
  IN  /\ FreeSlot(p)
      /\ IF Len(existingFiles) = 0
         THEN /\ calls' = [calls EXCEPT ![p] =
                             Thrown(call, NotFoundMessage(fileId))]
              /\ ret' = [op |-> "analyzeCodeFile", status |-> "error",
                         fileId |-> fileId,
                         message |-> NotFoundMessage(fileId)]
              /\ db_ops' = <<"select code_files">>
         ELSE /\ calls' = [calls EXCEPT ![p] =
                   [call EXCEPT
                      !.pc = "update",
                      !.existingFile = Some(existingFiles[1]),
                      !.aiSummary =
                         Some(generateAISummary(existingFiles[1].content,
                                                existingFiles[1].language)),
                      !.complexityScore =
                         Some(calculateComplexityScore(
                                 existingFiles[1].content))]]
              /\ UNCHANGED <<ret, db_ops>>
      /\ UNCHANGED <<repositories, code_files, code_functions,
                     code_dependencies, code_issues, search_queries, now>>

\* lines 25-33: the update statement and the rows it returns
AnalyzeUpdate(p, dates) ==
  LET call == calls[p]
      fileId == call.fileId
      Updated(row, date) ==
        IF UpdatesRow(row, fileId)
        THEN [row EXCEPT !.ai_summary = call.aiSummary,
                         !.complexity_score =
                            Some(NumericText(Val(call.complexityScore))),
                         !.last_updated = date]
        ELSE row
      HasId(row) == row.id = fileId
  IN  /\ call.op = "analyzeCodeFile"
      /\ call.pc = "update"
      /\ IF Val(call.complexityScore) > NumericMax
         THEN /\ calls' = [calls EXCEPT ![p] =
                             Thrown(call, "numeric field overflow")]
              /\ ret' = [op |-> "analyzeCodeFile", status |-> "error",
                         fileId |-> fileId,
                         message |-> "numeric field overflow"]
              /\ db_ops' = <<"select code_files", "update code_files">>
              /\ UNCHANGED <<code_files, now>>
         ELSE \E date \in dates :
                /\ date >= now
                /\ now' = date
                /\ code_files' =
                     [i \in 1..Len(code_files) |->
                        Updated(code_files[i], date)]
                /\ calls' = [calls EXCEPT ![p] =
                     [call EXCEPT
                        !.pc = "extract",
                        !.updatedFiles = Some(SelectSeq(code_files', HasId))]]
                /\ UNCHANGED <<ret, db_ops>>
      /\ UNCHANGED <<repositories, code_functions, code_dependencies,
                     code_issues, search_queries>>

\* line 36: the function list, computed from the row selected at the start
AnalyzeExtract(p) ==
  LET call == calls[p]
      functions == extractFunctions(Val(call.existingFile).content,
                                    Val(call.existingFile).language)
  IN  /\ call.op = "analyzeCodeFile"
      /\ call.pc = "extract"
      /\ calls' = [calls EXCEPT ![p] =
           [call EXCEPT
              !.pc = IF Len(functions) > 0 THEN "insert" ELSE "return",
              !.functions = Some(functions)]]
      /\ UNCHANGED <<repositories, code_files, code_functions,
                     code_dependencies, code_issues, search_queries, now,
                     ret, db_ops>>

\* lines 38-51: the insert statement
AnalyzeInsert(p) ==
  LET call == calls[p]
      rows == InsertedFunctions(Val(call.functions), call.fileId)
  IN  /\ call.op = "analyzeCodeFile"
      /\ call.pc = "insert"
      /\ Len(code_functions) + Len(rows) <= MaxFunctionRows
      /\ code_functions' = code_functions \o rows
      /\ calls' = [calls EXCEPT ![p] = [call EXCEPT !.pc = "return"]]
      /\ UNCHANGED <<repositories, code_files, code_dependencies,
                     code_issues, search_queries, now, ret, db_ops>>

\* lines 54-58: the returned record
AnalyzeReturn(p) ==
  LET call == calls[p]
      updatedFiles == Val(call.updatedFiles)
      value == [updatedFiles[1] EXCEPT
                  !.complexity_score = ParseStoredScore(@)]
  IN  /\ call.op = "analyzeCodeFile"
      /\ call.pc = "return"
      /\ IF Len(updatedFiles) = 0
         THEN \* updatedFiles[0] is undefined
              /\ calls' = [calls EXCEPT ![p] = Thrown(call, "TypeError")]
              /\ ret' = [op |-> "analyzeCodeFile", status |-> "error",
                         fileId |-> call.fileId, message |-> "TypeError"]
         ELSE /\ calls' = [calls EXCEPT ![p] =
                   [call EXCEPT !.pc = "done", !.status = "ok",
                                !.value = Some(value)]]
              /\ ret' = [op |-> "analyzeCodeFile", status |-> "ok",
                         fileId |-> call.fileId, value |-> value]
      /\ db_ops' = <<"select code_files", "update code_files">>
           \o (IF Len(Val(call.functions)) > 0
               THEN <<"insert code_functions">> ELSE <<>>)
      /\ UNCHANGED <<repositories, code_files, code_functions,
                     code_dependencies, code_issues, search_queries, now>>

-----------------------------------------------------------------------------
(* search_code.ts: searchCode *)

\* .slice(0, 50)
ResultLimit == 50

\* the where clause of the file query
SearchFileCondition(file, input) ==
  /\ file.repository_id = input.repository_id
  /\ \/ Len(input.file_types) = 0
     \/ \E k \in 1..Len(input.file_types) :
          ILikeNullable(file.language, input.file_types[k])
  /\ \/ ILike(file.path, "%" \o input.query \o "%")
     \/ ILike(file.content, "%" \o input.query \o "%")

\* a scoring that gives the exact-match bonus to a match in any case
RelevanceScoreAnyCase(line, query) ==
  5
  + (IF Includes(ToLowerCase(line), ToLowerCase(query)) THEN 3 ELSE 0)
  + (IF StartsWith(TrimStart(ToLowerCase(line)), ToLowerCase(query))
     THEN 2 ELSE 0)

\* relevanceScore of a matching line, in tenths, before the cap
RelevanceScore(line, query) ==
  5
  + (IF Includes(line, query) THEN 3 ELSE 0)
  + (IF StartsWith(TrimStart(ToLowerCase(line)), ToLowerCase(query))
     THEN 2 ELSE 0)

\* aiContext of a result for line i of a file
AiContext(file, i, input) ==
  IF input.include_ai_analysis
  THEN IF ~IsNull(file.ai_summary) /\ Val(file.ai_summary) # ""
       THEN Some("From file analysis: " \o Val(file.ai_summary))
       ELSE Some("Match found in " \o LanguageOr(file.language, "unknown")
                   \o " file at line " \o ToString(i))
  ELSE Null

\* the results pushed for line i (1-based) of a file
ResultsOfLine(file, lines, i, input) ==
  IF Includes(ToLowerCase(lines[i]), ToLowerCase(input.query))
  THEN <<[file_path |-> file.path,
          line_number |-> i,
          content_snippet |->
            JoinLines(SubSeq(lines, Max(1, i - 1), Min(Len(lines), i + 1))),
          relevance_score |-> Min(10, RelevanceScore(lines[i], input.query)),
          ai_context |-> AiContext(file, i, input)]>>
  ELSE <<>>

\* the results pushed for lines lo..hi of a file, in line order
RECURSIVE ResultsOfLines(_, _, _, _, _)
ResultsOfLines(file, lines, lo, hi, input) ==
  IF lo > hi THEN <<>>
  ELSE IF lo = hi THEN ResultsOfLine(file, lines, lo, input)
  ELSE LET mid == (lo + hi) \div 2
       IN  ResultsOfLines(file, lines, lo, mid, input)
             \o ResultsOfLines(file, lines, mid + 1, hi, input)

RECURSIVE ResultsOfFiles(_, _)
ResultsOfFiles(files, input) ==
  IF files = <<>> THEN <<>>
  ELSE LET lines == SplitLines(Head(files).content)
       IN  ResultsOfLines(Head(files), lines, 1, Len(lines), input)
             \o ResultsOfFiles(Tail(files), input)

\* a sort with the comparison reversed: (a, b) => a.relevance_score -
\* b.relevance_score
SortAscending(results) ==
  LET n == Len(results)
      position == [i \in 1..n |->
        1 + Cardinality({ j \in 1..n :
              \/ results[j].relevance_score < results[i].relevance_score
              \/ /\ results[j].relevance_score = results[i].relevance_score
                 /\ j < i })]
  IN  [k \in 1..n |-> results[CHOOSE i \in 1..n : position[i] = k]]

\* results.sort((a, b) => b.relevance_score - a.relevance_score): the sort is
\* stable, so an element moves behind every element with a higher score and
\* behind the earlier elements with its own score
SortByRelevance(results) ==
  LET n == Len(results)
      position == [i \in 1..n |->
        1 + Cardinality({ j \in 1..n :
              \/ results[j].relevance_score > results[i].relevance_score
              \/ /\ results[j].relevance_score = results[i].relevance_score
                 /\ j < i })]
  IN  [k \in 1..n |-> results[CHOOSE i \in 1..n : position[i] = k]]

\* a log write that is skipped when nothing was found
SearchQueryRowsWhenFound(input, results) ==
  IF results = <<>> THEN <<>>
  ELSE <<[id |-> Len(search_queries) + 1,
          repository_id |-> input.repository_id,
          query |-> input.query,
          query_type |-> "code",
          results_count |-> Len(results)]>>

\* a log that holds every search twice
SearchQueryRowsTwice(input, results) ==
  <<[id |-> Len(search_queries) + 1,
     repository_id |-> input.repository_id,
     query |-> input.query,
     query_type |-> "code",
     results_count |-> Len(results)],
    [id |-> Len(search_queries) + 2,
     repository_id |-> input.repository_id,
     query |-> input.query,
     query_type |-> "code",
     results_count |-> Len(results)]>>

\* the rows added by db.insert(searchQueriesTable).values({...}); results is
\* the array before it is sorted and sliced
SearchQueryRows(input, results) ==
  <<[id |-> Len(search_queries) + 1,
     repository_id |-> input.repository_id,
     query |-> input.query,
     query_type |-> "code",
     results_count |-> Len(results)]>>

searchCode(input) ==
  LET Matches(file) == SearchFileCondition(file, input)
      files == SelectSeq(code_files, Matches)
      results == ResultsOfFiles(files, input)
  IN  /\ Len(search_queries) < MaxLog
      /\ search_queries' = search_queries \o SearchQueryRows(input, results)
      /\ ret' = [op |-> "searchCode", status |-> "ok", input |-> input,
                 value |-> Take(SortByRelevance(results), ResultLimit)]
      /\ UNCHANGED calls
      /\ db_ops' = <<"select code_files", "insert search_queries">>
      /\ UNCHANGED <<repositories, code_files, code_functions, code_issues,
                     now>>
      /\ UNCHANGED code_dependencies

-----------------------------------------------------------------------------
(* search_code.ts: searchCode, statement by statement *)

SearchCall(input) ==
  [op |-> "searchCode", pc |-> "select", input |-> input,
   status |-> "running", results |-> Null, value |-> Null]

\* lines 10-90: the select and the results built from its rows
SearchSelect(p, input) ==
  LET Matches(file) == SearchFileCondition(file, input)
      files == SelectSeq(code_files, Matches)
  IN  /\ FreeSlot(p)
      /\ calls' = [calls EXCEPT ![p] =
           [SearchCall(input) EXCEPT
              !.pc = "log",
              !.results = Some(ResultsOfFiles(files, input))]]
      /\ UNCHANGED <<repositories, code_files, code_functions,
                     code_dependencies, code_issues, search_queries, now,
                     ret, db_ops>>

\* lines 93-100: the insert of the log row
SearchLog(p) ==
  LET call == calls[p]
  IN  /\ call.op = "searchCode"
      /\ call.pc = "log"
      /\ Len(search_queries) < MaxLog
      /\ search_queries' =
           search_queries \o SearchQueryRows(call.input, Val(call.results))
      /\ calls' = [calls EXCEPT ![p] = [call EXCEPT !.pc = "sort"]]
      /\ UNCHANGED <<repositories, code_files, code_functions,
                     code_dependencies, code_issues, now, ret, db_ops>>

\* lines 103-105: sort, slice and return
SearchSort(p) ==
  LET call == calls[p]
      value == Take(SortByRelevance(Val(call.results)), ResultLimit)
  IN  /\ call.op = "searchCode"
      /\ call.pc = "sort"
      /\ calls' = [calls EXCEPT ![p] =
           [call EXCEPT !.pc = "done", !.status = "ok",
                        !.value = Some(value)]]
      /\ ret' = [op |-> "searchCode", status |-> "ok",
                 input |-> call.input, value |-> value]
      /\ db_ops' = <<"select code_files", "insert search_queries">>
      /\ UNCHANGED <<repositories, code_files, code_functions,
                     code_dependencies, code_issues, search_queries, now>>

-----------------------------------------------------------------------------
(* natural_language_query.ts: naturalLanguageQuery *)

KeywordLimit == 15
FileLimit == 10
FunctionFetchLimit == 10
KeyFunctionLimit == 5
IssueLimit == 5
RelatedFileLimit == 5
SuggestionLimit == 5

stopWords ==
  {"what", "where", "when", "why", "how", "who", "which", "can", "could",
   "should", "would", "is", "are", "was", "were", "be", "been", "being",
   "have", "has", "had", "do", "does", "did", "will",
   "the", "a", "an", "and", "or", "but", "in", "on", "at", "to", "for",
   "of", "with", "by", "from", "up", "about", "into", "through", "during",
   "before", "after", "above", "below", "between", "among", "this", "that",
   "these", "those", "i", "me", "my", "myself", "we", "our", "ours",
   "ourselves", "you", "your", "yours", "yourself", "yourselves"}

\* .replace(/[^\w\s]/g, ' ')
RECURSIVE ReplaceNonWord(_)
ReplaceNonWord(s) ==
  IF s = "" THEN ""
  ELSE (IF IsWord(Head(s)) \/ IsSpace(Head(s)) THEN Head(s) ELSE " ")
       \o ReplaceNonWord(Tail(s))

RECURSIVE SkipNonSpaces(_, _)
SkipNonSpaces(s, i) ==
  IF i <= Len(s) /\ ~IsSpace(CharAt(s, i)) THEN SkipNonSpaces(s, i + 1) ELSE i

\* the non-empty pieces of s.split(/\s+/), from position i on
RECURSIVE Words(_, _)
Words(s, i) ==
  LET b == SkipSpaces(s, i)
      e == SkipNonSpaces(s, b)
  IN  IF b > Len(s) THEN <<>>
      ELSE <<SubSeq(s, b, e - 1)>> \o Words(s, e)

Contains(seq, x) == \E k \in 1..Len(seq) : seq[k] = x

\* a list that keeps its repeats
WithRepeats(seq, seen) == seen \o seq

\* [...new Set(seq)]
RECURSIVE Distinct(_, _)
Distinct(seq, seen) ==
  IF seq = <<>> THEN seen
  ELSE Distinct(Tail(seq),
                IF Contains(seen, Head(seq)) THEN seen
                ELSE Append(seen, Head(seq)))

extractKeywords(question) ==
  LET IsKeyword(word) == Len(word) > 2 /\ word \notin stopWords
      baseKeywords ==
        SelectSeq(Words(ReplaceNonWord(ToLowerCase(question)), 1), IsKeyword)
      expandedKeywords ==
        baseKeywords
        \o (IF Contains(baseKeywords, "authentication")
               \/ Contains(baseKeywords, "authenticate")
            THEN <<"auth", "login", "user", "validate", "credential">>
            ELSE <<>>)
        \o (IF Contains(baseKeywords, "security")
               \/ Contains(baseKeywords, "secure")
            THEN <<"vulnerability", "validation", "sanitize", "xss",
                   "injection">>
            ELSE <<>>)
        \o (IF Contains(baseKeywords, "performance")
               \/ Contains(baseKeywords, "optimize")
            THEN <<"slow", "speed", "efficiency", "complexity">>
            ELSE <<>>)
  IN  Take(Distinct(expandedKeywords, <<>>), KeywordLimit)

\* the where clause of the file query, one of three modes
QueryFileCondition(file, input, keywords) ==
  /\ file.repository_id = input.repository_id
  /\ IF Len(input.context_files) > 0
     THEN \E k \in 1..Len(input.context_files) :
            ILike(file.path, "%" \o input.context_files[k] \o "%")
     ELSE IF Len(keywords) > 0
     THEN \E k \in 1..Len(keywords) :
            \/ ILike(file.path, "%" \o keywords[k] \o "%")
            \/ ILike(file.content, "%" \o keywords[k] \o "%")
            \/ ILikeNullable(file.ai_summary, "%" \o keywords[k] \o "%")
     ELSE TRUE

FunctionMatchesKeyword(func, keywords) ==
  \E k \in 1..Len(keywords) :
    \/ Includes(ToLowerCase(func.name), keywords[k])
    \/ Includes(ToLowerCase(func.signature), keywords[k])
    \/ /\ ~IsNull(func.ai_explanation)
       /\ Val(func.ai_explanation) # ""
       /\ Includes(ToLowerCase(Val(func.ai_explanation)), keywords[k])

\* key functions taken in fetch order, matching or not
KeyFunctionsInFetchOrder(allFunctions, keywords) ==
  LET first == Take(allFunctions, KeyFunctionLimit)
  IN  [k \in 1..Len(first) |-> first[k].name]

\* key functions without the fill of rows that match no keyword
KeyFunctionsMatchingOnly(allFunctions, keywords) ==
  LET Matching(func) == FunctionMatchesKeyword(func, keywords)
      first == Take(SelectSeq(allFunctions, Matching), KeyFunctionLimit)
  IN  [k \in 1..Len(first) |-> first[k].name]

\* keyFunctions computed from the fetched function rows
KeyFunctions(allFunctions, keywords) ==
  LET Matching(func) == FunctionMatchesKeyword(func, keywords)
      NonMatching(func) == ~FunctionMatchesKeyword(func, keywords)
      prioritizedFunctions ==
        IF Len(keywords) > 0
        THEN Take(SelectSeq(allFunctions, Matching)
                    \o SelectSeq(allFunctions, NonMatching), KeyFunctionLimit)
        ELSE Take(allFunctions, KeyFunctionLimit)
  IN  [k \in 1..Len(prioritizedFunctions) |-> prioritizedFunctions[k].name]

\* the distinct non-empty languages of the files, in order
Languages(files) ==
  LET HasLanguage(f) == ~IsNull(f.language) /\ Val(f.language) # ""
      withLanguage == SelectSeq(files, HasLanguage)
  IN  Distinct([k \in 1..Len(withLanguage) |-> Val(withLanguage[k].language)],
               <<>>)

\* Array.prototype.join(', ')
RECURSIVE JoinComma(_)
JoinComma(seq) ==
  IF seq = <<>> THEN ""
  ELSE IF Len(seq) = 1 THEN seq[1]
  ELSE seq[1] \o ", " \o JoinComma(Tail(seq))

\* a summary without the branch for an empty file list
generateSummaryNoEmptyCase(question, files, functions, issues) ==
  "Analysis for question: \"" \o question \o "\". "
    \o "Found " \o ToString(Len(files)) \o " relevant code file(s) "
    \o "that may be related to your query."

generateSummary(question, files, functions, issues) ==
  IF Len(files) = 0
  THEN "No relevant code files found for the question: \"" \o question
         \o "\". The repository may not contain code related to your query."
  ELSE "Analysis for question: \"" \o question \o "\". "
         \o "Found " \o ToString(Len(files)) \o " relevant code file(s) "
         \o (IF Len(functions) > 0
             THEN "with " \o ToString(Len(functions)) \o " key function(s) "
             ELSE "")
         \o (IF Len(issues) > 0
             THEN "and " \o ToString(Len(issues)) \o " identified issue(s) "
             ELSE "")
         \o "that may be related to your query."
         \o (IF Len(Languages(files)) > 0
             THEN " The code is primarily written in: "
                    \o JoinComma(Languages(files)) \o "."
             ELSE "")

\* suggestions without the entries added to an empty list
generateSuggestionsNoFallback(question, files, issues) ==
  LET lowerQuestion == ToLowerCase(question)
  IN  IF Len(files) = 0
      THEN <<>>
      ELSE (IF Len(issues) > 0
            THEN <<"Address the identified code issues for better code quality",
                   "Prioritize high and critical severity issues first">>
            ELSE <<>>)
           \o (IF \E k \in 1..Len(files) : IsNull(files[k].ai_summary)
               THEN <<"Generate AI summaries for files to improve future query accuracy">>
               ELSE <<>>)

generateSuggestions(question, files, issues) ==
  LET lowerQuestion == ToLowerCase(question)
      suggestions ==
        (IF \/ Includes(lowerQuestion, "performance")
            \/ Includes(lowerQuestion, "slow")
            \/ Includes(lowerQuestion, "optimize")
         THEN <<"Review code complexity scores and consider optimization opportunities",
                "Look for inefficient algorithms or database queries">>
         ELSE <<>>)
        \o (IF \/ Includes(lowerQuestion, "error")
               \/ Includes(lowerQuestion, "bug")
               \/ Includes(lowerQuestion, "issue")
            THEN <<"Check error handling patterns in the identified files",
                   "Add comprehensive unit tests for critical functions">>
            ELSE <<>>)
        \o (IF \/ Includes(lowerQuestion, "security")
               \/ Includes(lowerQuestion, "secure")
               \/ Includes(lowerQuestion, "vulnerability")
            THEN <<"Conduct a security audit of input validation and authentication",
                   "Review data sanitization practices">>
            ELSE <<>>)
        \o (IF Len(issues) > 0
            THEN <<"Address the identified code issues for better code quality",
                   "Prioritize high and critical severity issues first">>
            ELSE <<>>)
        \o (IF \E k \in 1..Len(files) :
                 IsNull(files[k].ai_summary) \/ Val(files[k].ai_summary) = ""
            THEN <<"Generate AI summaries for files to improve future query accuracy">>
            ELSE <<>>)
  IN  IF Len(files) = 0
      THEN <<"Consider adding more detailed file paths or context to your query",
             "Try using specific function names or file names in your question">>
      ELSE IF Len(suggestions) = 0
      THEN <<"Review the identified files for potential improvements",
             "Consider adding more detailed documentation to the codebase">>
      ELSE Take(suggestions, SuggestionLimit)

\* a select without the where clause
SelectAnyRepository(repositoryId) == Take(repositories, 1)

\* db.select().from(repositoriesTable).where(eq(id, repositoryId)).limit(1)
SelectRepository(repositoryId) ==
  LET IsRepository(row) == row.id = repositoryId
  IN  Take(SelectSeq(repositories, IsRepository), 1)

naturalLanguageQuery(input) ==
  LET repository == SelectRepository(input.repository_id)
  IN
  IF Len(repository) = 0
  THEN /\ ret' = [op |-> "naturalLanguageQuery", status |-> "error",
                  input |-> input,
                  message |-> "Repository not found with id: "
                                \o ToString(input.repository_id)]
       /\ UNCHANGED calls
       /\ db_ops' = <<"select repositories">>
       /\ UNCHANGED <<repositories, code_files, code_functions, code_issues,
                      search_queries, now>>
       /\ UNCHANGED code_dependencies
  ELSE
    LET keywords == extractKeywords(input.question)
        Relevant(file) == QueryFileCondition(file, input, keywords)
        relevantFiles == Take(SelectSeq(code_files, Relevant), FileLimit)
        OfRelevantFile(row) ==
          \E k \in 1..Len(relevantFiles) : row.file_id = relevantFiles[k].id
        allFunctions ==
          Take(SelectSeq(code_functions, OfRelevantFile), FunctionFetchLimit)
        keyFunctions == IF Len(relevantFiles) > 0
                        THEN KeyFunctions(allFunctions, keywords) ELSE <<>>
        issues == Take(SelectSeq(code_issues, OfRelevantFile), IssueLimit)
        potentialIssues ==
          IF Len(relevantFiles) > 0
          THEN [k \in 1..Len(issues) |->
                  issues[k].issue_type \o ": " \o issues[k].description]
          ELSE <<>>
        related == Take(relevantFiles, RelatedFileLimit)
    IN /\ ret' = [op |-> "naturalLanguageQuery", status |-> "ok",
                  input |-> input,
                  value |->
                    [summary |-> generateSummary(input.question, relevantFiles,
                                                 keyFunctions, potentialIssues),
                     key_functions |-> keyFunctions,
                     potential_issues |-> potentialIssues,
                     suggestions |-> generateSuggestions(input.question,
                                       relevantFiles, potentialIssues),
                     related_files |->
                       [k \in 1..Len(related) |-> related[k].path]]]
       /\ UNCHANGED calls
       /\ db_ops' = <<"select repositories", "select code_files">>
            \o (IF Len(relevantFiles) > 0
                THEN <<"select code_functions", "select code_issues">>
                ELSE <<>>)
       /\ UNCHANGED <<repositories, code_files, code_functions, code_issues,
                      search_queries, now>>
       /\ UNCHANGED code_dependencies

-----------------------------------------------------------------------------
(* get_dependency_visualization.ts: getDependencyVisualization *)

\* the greatest element of a non-empty set of positions
Greatest(positions) == CHOOSE i \in positions : \A j \in positions : i >= j

\* s.split(c).pop(): the text behind the last c, all of s when c is not in s
SplitPop(s, c) ==
  LET at == { i \in 1..Len(s) : CharAt(s, i) = c }
  IN  IF at = {} THEN s ELSE SubSeq(s, Greatest(at) + 1, Len(s))

\* new Map(files.map(file => [file.path, file])).get(filePath): of the files
\* with this path the last one
FileMapGet(files, filePath) ==
  LET at == { k \in 1..Len(files) : files[k].path = filePath }
  IN  IF at = {} THEN Null ELSE Some(files[Greatest(at)])

\* the paths collected in an array, not in a set
AllFilesWithRepeats(dependencies) ==
  [i \in 1..(2 * Len(dependencies)) |->
     IF i % 2 = 1 THEN dependencies[(i + 1) \div 2].from_file
     ELSE dependencies[i \div 2].to_file]

\* the paths added to the set allFiles, in the order of their first add
AllFiles(dependencies) ==
  Distinct([i \in 1..(2 * Len(dependencies)) |->
              IF i % 2 = 1 THEN dependencies[(i + 1) \div 2].from_file
              ELSE dependencies[i \div 2].to_file],
           <<>>)

\* the type of the node of filePath; fileData is the entry of fileMap
NodeType(filePath, fileData) ==
  LET extension == ToLowerCase(SplitPop(filePath, "."))
      fileName == ToLowerCase(SplitPop(filePath, "/"))
  IN  IF extension \in {"json", "yaml", "yml"} THEN "config"
      ELSE IF extension \in {"md", "txt", "rst"} THEN "documentation"
      ELSE IF Includes(fileName, "test") \/ Includes(fileName, "spec")
      THEN "test"
      ELSE IF Includes(fileName, "config") \/ Includes(fileName, "setting")
      THEN "config"
      ELSE IF \/ Includes(fileName, "util")
              \/ Includes(fileName, "helper")
              \/ Includes(fileName, "lib")
      THEN "utility"
      ELSE IF \/ Includes(fileName, "main")
              \/ Includes(fileName, "index")
              \/ Includes(fileName, "app")
      THEN "entry"
      ELSE IF /\ ~IsNull(fileData)
              /\ ~IsNull(Val(fileData).language)
              /\ Val(Val(fileData).language) # ""
      THEN ToLowerCase(Val(Val(fileData).language))
      ELSE "file"

\* filePath.split('/').pop() || filePath
NodeLabel(filePath) ==
  IF SplitPop(filePath, "/") = "" THEN filePath ELSE SplitPop(filePath, "/")

getDependencyVisualization(repositoryId) ==
  LET InRepository(row) == row.repository_id = repositoryId
      dependencies == SelectSeq(code_dependencies, InRepository)
      files == SelectSeq(code_files, InRepository)
      allFiles == AllFiles(dependencies)
  IN  /\ ret' = [op |-> "getDependencyVisualization", status |-> "ok",
                 repositoryId |-> repositoryId,
                 value |->
                   [nodes |->
                      [k \in 1..Len(allFiles) |->
                         [id |-> allFiles[k],
                          label |-> NodeLabel(allFiles[k]),
                          type |-> NodeType(allFiles[k],
                                            FileMapGet(files, allFiles[k]))]],
                    edges |->
                      [k \in 1..Len(dependencies) |->
                         [from |-> dependencies[k].from_file,
                          to |-> dependencies[k].to_file,
                          type |-> dependencies[k].dependency_type]]]]
      /\ UNCHANGED calls
      /\ db_ops' = <<"select code_dependencies", "select code_files">>
      /\ UNCHANGED <<repositories, code_files, code_functions,
                     code_dependencies, code_issues, search_queries, now>>

-----------------------------------------------------------------------------
(* get_code_issues.ts: getCodeIssues *)

\* list && list.length > 0, for an optional list
GivenList(list) == ~IsNull(list) /\ Len(Val(list)) > 0

InList(list, x) == \E k \in 1..Len(list) : list[k] = x

\* the conditions joined by or, not by and
IssueConditionAny(issue, file, repositoryId, filters) ==
  \/ file.repository_id = repositoryId
  \/ /\ ~IsNull(filters)
     /\ \/ /\ GivenList(Val(filters).severity)
           /\ InList(Val(Val(filters).severity), issue.severity)
        \/ /\ GivenList(Val(filters).issue_type)
           /\ InList(Val(Val(filters).issue_type), issue.issue_type)
        \/ /\ ~IsNull(Val(filters).file_path)
           /\ Val(Val(filters).file_path) # ""
           /\ file.path = Val(Val(filters).file_path)

\* and(...conditions) for an issue row joined with its file row
IssueCondition(issue, file, repositoryId, filters) ==
  /\ file.repository_id = repositoryId
  /\ ~IsNull(filters) =>
       /\ GivenList(Val(filters).severity) =>
            InList(Val(Val(filters).severity), issue.severity)
       /\ GivenList(Val(filters).issue_type) =>
            InList(Val(Val(filters).issue_type), issue.issue_type)
       /\ (~IsNull(Val(filters).file_path) /\ Val(Val(filters).file_path) # "")
            => file.path = Val(Val(filters).file_path)

\* the inner join: an issue row is selected with the file row of its file_id
getCodeIssues(repositoryId, filters) ==
  LET Selected(issue) ==
        \E k \in 1..Len(code_files) :
          /\ code_files[k].id = issue.file_id
          /\ IssueCondition(issue, code_files[k], repositoryId, filters)
  IN  /\ ret' = [op |-> "getCodeIssues", status |-> "ok",
                 repositoryId |-> repositoryId, filters |-> filters,
                 value |-> SelectSeq(code_issues, Selected)]
      /\ UNCHANGED calls
      /\ db_ops' = <<"select code_issues join code_files">>
      /\ UNCHANGED <<repositories, code_files, code_functions,
                     code_dependencies, code_issues, search_queries, now>>

-----------------------------------------------------------------------------
(* Inputs *)

RECURSIVE Repeat(_, _)
Repeat(s, n) == IF n = 0 THEN "" ELSE s \o Repeat(s, n - 1)

File(repositoryId, path, content, language, aiSummary) ==
  [repository_id |-> repositoryId, path |-> path, content |-> content,
   language |-> language, ai_summary |-> aiSummary]

\* a file id of every row that can exist, and one that cannot
FileIds == 1..(MaxFiles + 1)
\* a repository id of every row that can exist, and one that cannot
RepositoryIds == 1..(MaxRepos + 1)

HelloContent == "function hello(name) {\n  return 1;\n}"

\* 51 lines that contain "a" in either case, and a last empty line
ManyLines == Repeat(" A\nxa\na\n", 17)

SearchFiles ==
  { File(1, "exact_match.ts", "calculate", Some("typescript"),
         Some("Utility functions")),
    File(1, "many.txt", ManyLines, Null, Null),
    File(1, "lab/notes.md", " ab\nCalculate a_b", Some("markdown"), Null),
    File(2, "other.js", "ab", Some("javascript"), Null) }

SearchInput(repositoryId, query, fileTypes, includeAi) ==
  [repository_id |-> repositoryId, query |-> query, file_types |-> fileTypes,
   include_ai_analysis |-> includeAi]

SearchInputs ==
  { SearchInput(1, "calculate", <<>>, FALSE),
    SearchInput(1, "a", <<>>, TRUE),
    SearchInput(1, " ab", <<"TypeScript", "MARKDOWN">>, FALSE),
    SearchInput(MaxRepos + 1, "ab", <<>>, FALSE) }

AnalyzeFiles ==
  { File(1, "minimal.js", "// Just a comment", Some("javascript"), Null),
    File(1, "hello.js", HelloContent, Some("javascript"), Null),
    File(1, "go.ts", "async function g() {\n if (1) {\nlet f = (x) => x",
         Some("typescript"), Null),
    File(1, "odd", "}}{\nfunction f() }{", Null, Null),
    File(1, "tool.py", "def f():\n  pass", Some("python"), Null),
    File(1, "pair.js",
         "function a() {\n}\nexport function b(x) {\n  if (x) {\n  }\n}",
         Some("javascript"), Null),
    File(1, "empty.js", "", Some(""), Some("stale summary")),
    File(1, "Hello.JS", HelloContent, Some("JavaScript"), Null) }

QueryInput(repositoryId, question, contextFiles) ==
  [repository_id |-> repositoryId, question |-> question,
   context_files |-> contextFiles]

QueryFiles ==
  { File(1, "src/auth.ts", "function login(user) {\n}", Some("typescript"),
         Null),
    File(2, "hello.py", "def hello():\n  pass", Some("python"), Null) }

QueryInputs ==
  { QueryInput(1, "Where is hello?", <<>>),
    QueryInput(1, "Is it?", <<>>),
    QueryInput(1, "login bug", <<"AUTH">>),
    QueryInput(MaxRepos + 1, "Where is hello?", <<>>) }

Issue(fileId, issueType, severity, description) ==
  [file_id |-> fileId, issue_type |-> issueType, severity |-> severity,
   description |-> description]

Issues == { Issue(1, "bug", "high", "Null dereference") }

CoreFiles ==
  { File(1, "src/hello.js", HelloContent, Some("javascript"), Null) }


CoreSearchInputs == { SearchInput(1, "hello", <<>>, TRUE) }

CoreQueryInputs ==
  { QueryInput(1, "Where is hello?", <<>>),
    QueryInput(MaxRepos + 1, "Where is hello?", <<>>) }

-----------------------------------------------------------------------------
(* Specifications *)

\* an analysis at any time from now on
AnalyzeCodeFile == \E fileId \in FileIds : analyzeCodeFile(fileId, now..MaxClock)

\* an analysis within the current clock tick
AnalyzeCodeFileNow == \E fileId \in FileIds : analyzeCodeFile(fileId, {now})

\* every handler, over a small store
Next ==
  \/ InsertRepository
  \/ \E f \in CoreFiles : InsertCodeFile(f)
  \/ \E x \in Issues : InsertCodeIssue(x)
  \/ AnalyzeCodeFile
  \/ \E input \in CoreSearchInputs : searchCode(input)
  \/ \E input \in CoreQueryInputs : naturalLanguageQuery(input)

Spec == Init /\ [][Next]_vars

\* analysis of files of every shape
NextAnalyze ==
  \/ \E f \in AnalyzeFiles : InsertCodeFile(f)
  \/ AnalyzeCodeFile

SpecAnalyze == Init /\ [][NextAnalyze]_vars

\* search over files with many matching lines
NextSearch ==
  \/ InsertRepository
  \/ \E f \in SearchFiles : InsertCodeFile(f)
  \/ \E input \in SearchInputs : searchCode(input)

SpecSearch == Init /\ [][NextSearch]_vars

\* question answering over files, functions and issues
NextQuery ==
  \/ InsertRepository
  \/ \E f \in QueryFiles : InsertCodeFile(f)
  \/ \E x \in Issues : InsertCodeIssue(x)
  \/ AnalyzeCodeFileNow
  \/ \E input \in QueryInputs : naturalLanguageQuery(input)

SpecQuery == Init /\ [][NextQuery]_vars


Dependency(repositoryId, fromFile, toFile, dependencyType) ==
  [repository_id |-> repositoryId, from_file |-> fromFile,
   to_file |-> toFile, dependency_type |-> dependencyType]

GraphDependencies ==
  { Dependency(1, "src/main.ts", "src/utils.ts", "import"),
    Dependency(1, "src/parser.ts", "yaml", "require"),
    Dependency(1, "src/parser.ts", "src/main.ts", "import"),
    Dependency(1, "tests/Spec.Parser.ts", "config/app.JSON", "include"),
    Dependency(1, "docs/README.MD", "src/engine", "extend"),
    Dependency(1, "src/settings.ts", "src/engine", "inherit"),
    Dependency(2, "src/parser.ts", "src/main.ts", "import") }

GraphFiles ==
  { File(1, "src/parser.ts", "", Some("TypeScript"), Null),
    File(1, "src/engine", "", Null, Null),
    File(1, "orphan.py", "", Some("python"), Null),
    File(2, "src/parser.ts", "", Some("Go"), Null) }

\* dependency rows and file rows are written, and graphs are built from them
NextGraph ==
  \/ \E f \in GraphFiles : InsertCodeFile(f)
  \/ \E d \in GraphDependencies : InsertCodeDependency(d)
  \/ \E repositoryId \in RepositoryIds :
       getDependencyVisualization(repositoryId)

SpecGraph == Init /\ [][NextGraph]_vars

Filters(severity, issueType, filePath) ==
  Some([severity |-> severity, issue_type |-> issueType,
        file_path |-> filePath])

IssueFilters ==
  { Null,
    Filters(Null, Null, Null),
    Filters(Some(<<"high", "critical">>), Null, Null),
    Filters(Some(<<>>), Some(<<>>), Null),
    Filters(Some(<<"high">>), Some(<<"security">>), Some("src/auth.ts")),
    Filters(Null, Some(<<"bug">>), Some("")),
    Filters(Some(<<"low">>), Null, Some("src/auth.ts")) }

IssueFiles ==
  { File(1, "src/auth.ts", "", Some("typescript"), Null),
    File(1, "src/db.ts", "", Some("typescript"), Null),
    File(2, "src/auth.ts", "", Some("typescript"), Null) }

IssuePool ==
  { Issue(1, "bug", "high", "Memory leak detected"),
    Issue(1, "security", "high", "SQL injection"),
    Issue(2, "bug", "low", "Issue of the second file") }

\* file rows and issue rows are written, and issues are listed
NextIssues ==
  \/ \E f \in IssueFiles : InsertCodeFile(f)
  \/ \E x \in IssuePool : InsertCodeIssue(x)
  \/ \E repositoryId \in RepositoryIds, filters \in IssueFilters :
       getCodeIssues(repositoryId, filters)

SpecIssues == Init /\ [][NextIssues]_vars

\* files with more function declarations than one query fetches or names
PadLine == "function pad()\n"

KeyFunctionFiles ==
  { File(1, "big.js", Repeat(PadLine, 10) \o "function login()",
         Some("javascript"), Null),
    File(1, "mid.js", Repeat(PadLine, 5) \o "function login()",
         Some("javascript"), Null),
    File(1, "auth.js", "function login()\nfunction pad()", Some("javascript"),
         Null),
    File(1, "notes.md", "login notes", Some("markdown"), Null) }

KeyFunctionInputs ==
  { QueryInput(1, "Where is login?", <<>>),
    QueryInput(1, "Is it?", <<>>),
    QueryInput(1, "pad login", <<".js">>),
    QueryInput(MaxRepos + 1, "Where is login?", <<>>) }

\* analyses that fill the function table, then questions about it
NextKeyFunctions ==
  \/ InsertRepository
  \/ \E f \in KeyFunctionFiles : InsertCodeFile(f)
  \/ \E fileId \in FileIds :
       analyzeCodeFileWithin(fileId, {now}, MaxFunctionRows)
  \/ \E input \in KeyFunctionInputs : naturalLanguageQuery(input)

SpecKeyFunctions == Init /\ [][NextKeyFunctions]_vars

\* requests in flight at the same time: analyses and searches, statement by
\* statement, within one clock tick
RequestFiles ==
  { File(1, "pair.js",
         "function a() {\n}\nexport function b(x) {\n  if (x) {\n  }\n}",
         Some("javascript"), Null),
    File(1, "minimal.js", "// Just a comment", Some("javascript"),
         Some("stale summary")) }

RequestSearchInputs == { SearchInput(1, "function", <<>>, FALSE) }

NextRequests ==
  \/ \E f \in RequestFiles : InsertCodeFile(f)
  \/ \E p \in Procs, fileId \in FileIds : AnalyzeSelect(p, fileId)
  \/ \E p \in Procs : AnalyzeUpdate(p, {now})
  \/ \E p \in Procs : AnalyzeExtract(p)
  \/ \E p \in Procs : AnalyzeInsert(p)
  \/ \E p \in Procs : AnalyzeReturn(p)
  \/ \E p \in Procs, input \in RequestSearchInputs : SearchSelect(p, input)
  \/ \E p \in Procs : SearchLog(p)
  \/ \E p \in Procs : SearchSort(p)

SpecRequests == Init /\ [][NextRequests]_vars

\* analyses over a store of two files
FrameFiles ==
  { File(1, "hello.js", HelloContent, Some("javascript"), Null),
    File(1, "pair.js",
         "function a() {\n}\nexport function b(x) {\n  if (x) {\n  }\n}",
         Some("javascript"), Null),
    File(2, "empty.js", "", Some(""), Some("stale summary")) }

NextFrame ==
  \/ \E f \in FrameFiles : InsertCodeFileWithin(f, MaxFiles + 1)
  \/ \E fileId \in FileIds :
       analyzeCodeFile(fileId, now..Min(now + 1, MaxClock))

SpecFrame == Init /\ [][NextFrame]_vars

\* the reading handlers over a store with rows in every table
ReaderDependencies ==
  { Dependency(1, "src/hello.js", "src/utils.js", "import") }

NextReaders ==
  \/ InsertRepository
  \/ \E f \in CoreFiles : InsertCodeFile(f)
  \/ \E x \in Issues : InsertCodeIssue(x)
  \/ \E d \in ReaderDependencies : InsertCodeDependency(d)
  \/ AnalyzeCodeFileNow
  \/ \E input \in CoreSearchInputs : searchCode(input)
  \/ \E input \in CoreQueryInputs : naturalLanguageQuery(input)
  \/ \E repositoryId \in RepositoryIds :
       getDependencyVisualization(repositoryId)

SpecReaders == Init /\ [][NextReaders]_vars

\* searches for text with the characters that a LIKE pattern gives a meaning
LiteralFiles ==
  { File(1, "lab/notes.md", " ab\nCalculate a_b", Some("markdown"), Null),
    File(1, "src/path.ts", "let p = \"C:\\\\tmp\";\nlet q = 100 % 7;",
         Some("typescript"), Null),
    File(1, "rate.txt", "a\\b\n50%", Null, Null),
    File(2, "other.js", "a_b", Some("javascript"), Null) }

LiteralInputs ==
  { SearchInput(1, "a_b", <<>>, FALSE),
    SearchInput(1, "%", <<>>, FALSE),
    SearchInput(1, "\\", <<>>, FALSE),
    SearchInput(1, "A\\B", <<>>, TRUE),
    SearchInput(1, "0 %", <<"typescript">>, FALSE) }

NextSearchLiteral ==
  \/ \E f \in LiteralFiles : InsertCodeFile(f)
  \/ \E input \in LiteralInputs : searchCode(input)

SpecSearchLiteral == Init /\ [][NextSearchLiteral]_vars

\* the analysis functions of analyze_code_file.ts, each applied to a content
\* made of at most MaxTokens pieces of source text
RECURSIVE Texts(_, _)
Texts(tokens, n) ==
  IF n = 0 THEN {""}
  ELSE LET shorter == Texts(tokens, n - 1)
       IN  shorter \cup { s \o t : s \in shorter, t \in tokens }

ControlTokens ==
  { "if (", "if(", "catch \n(", " function f", "function\n", "{", "}" }

FunctionTokens ==
  { "function f() ", "export async function g(x)", "{", "}", "\n",
    "  let h = (y) => y;", "} {", "\n{\n}" }

SummaryTokens ==
  { "import", "module.exports", "interface ", "const ", "\n", " " }

AnalysisContents ==
  Texts(ControlTokens, MaxTokens) \cup Texts(FunctionTokens, MaxTokens)
    \cup Texts(SummaryTokens, MaxTokens)

AnalysisLanguages ==
  { Null, Some(""), Some("javascript"), Some("typescript"),
    Some("JavaScript"), Some("python") }

InitAnalysis ==
  /\ repositories = <<>>
  /\ code_files = <<>>
  /\ code_functions = <<>>
  /\ code_dependencies = <<>>
  /\ code_issues = <<>>
  /\ search_queries = <<>>
  /\ now = 1
  /\ \E content \in AnalysisContents, language \in AnalysisLanguages :
       ret = [op |-> "input", content |-> content, language |-> language]
  /\ db_ops = <<>>
  /\ calls = [p \in Procs |-> Idle]

\* one of the functions is applied to the input
Applied(op, value) ==
  /\ ret.op = "input"
  /\ ret' = [op |-> op, content |-> ret.content, language |-> ret.language,
             value |-> value]
  /\ UNCHANGED <<repositories, code_files, code_functions, code_dependencies,
                 code_issues, search_queries, now, db_ops, calls>>

ApplyGenerateAISummary ==
  Applied("generateAISummary", generateAISummary(ret.content, ret.language))

ApplyCalculateComplexityScore ==
  Applied("calculateComplexityScore", calculateComplexityScore(ret.content))

ApplyCalculateMaxBraceDepth ==
  Applied("calculateMaxBraceDepth", calculateMaxBraceDepth(ret.content))

ApplyExtractFunctions ==
  Applied("extractFunctions", extractFunctions(ret.content, ret.language))

NextAnalysis ==
  \/ ApplyGenerateAISummary
  \/ ApplyCalculateComplexityScore
  \/ ApplyCalculateMaxBraceDepth
  \/ ApplyExtractFunctions

SpecAnalysis == InitAnalysis /\ [][NextAnalysis]_vars

\* extractKeywords of natural_language_query.ts, applied to a question made
\* of at most MaxTokens pieces
QuestionTokens ==
  { "Can we optimize Authentication? ",
    "secure login, user; auth ",
    "aaa bbb ccc ddd eee ",
    "fff ggg hhh iii jjj kkk ",
    "security",
    "authenticated x_1 is ",
    "the Performance of login " }

InitKeywords ==
  /\ repositories = <<>>
  /\ code_files = <<>>
  /\ code_functions = <<>>
  /\ code_dependencies = <<>>
  /\ code_issues = <<>>
  /\ search_queries = <<>>
  /\ now = 1
  /\ \E question \in Texts(QuestionTokens, MaxTokens) :
       ret = [op |-> "input", content |-> question, language |-> Null]
  /\ db_ops = <<>>
  /\ calls = [p \in Procs |-> Idle]

ApplyExtractKeywords ==
  Applied("extractKeywords", extractKeywords(ret.content))

NextKeywords == ApplyExtractKeywords

SpecKeywords == InitKeywords /\ [][NextKeywords]_vars

\* questions whose context entries and keywords hold characters that a LIKE
\* pattern gives a meaning
SelectionFiles ==
  { File(1, "src/my_file.ts", "let user_id = 1", Some("typescript"), Null),
    File(1, "src/myxfile.ts", "let userXid = 1", Some("typescript"),
         Some("Reads the USER-ID")),
    File(1, "docs/notes.md", "plain text", Some("markdown"), Null),
    File(1, "docs/100%.md", "notes on user_id", Null, Some("my_file notes")),
    File(1, "docs/1000.md", "notes on USER_ID", Null, Null),
    File(2, "src/my_file.ts", "let user_id = 1", Some("typescript"), Null) }

SelectionInputs ==
  { QueryInput(1, "Where is user_id?", <<>>),
    QueryInput(1, "Where is user_id?", <<"MY_FILE">>),
    QueryInput(1, "Where is the notes text?", <<"my_file", "100%">>),
    QueryInput(1, "Is it?", <<"100%">>),
    QueryInput(1, "notes", <<"src/", "docs/">>),
    QueryInput(1, "Which notes mention my_file?", <<>>),
    QueryInput(1, "typescript files", <<".TS">>),
    QueryInput(1, "Is it?", <<>>),
    QueryInput(MaxRepos + 1, "Where is user_id?", <<>>) }

NextSelection ==
  \/ InsertRepository
  \/ \E f \in SelectionFiles : InsertCodeFile(f)
  \/ \E input \in SelectionInputs : naturalLanguageQuery(input)

SpecSelection == Init /\ [][NextSelection]_vars

\* files with a summary, without one and with an empty one, and questions
\* with words of none, one and all of the suggestion families
SuggestionFiles ==
  { File(1, "src/auth.ts", "function login(user) {\n}", Some("typescript"),
         Some("A typescript file that logs a user in")),
    File(1, "src/slow.ts", "while (true) {}", Some("typescript"), Null),
    File(1, "src/empty.ts", "", Some("typescript"), Some("")) }

SuggestionInputs ==
  { QueryInput(1, "Is it?", <<>>),
    QueryInput(1, "Is it SLOW?", <<>>),
    QueryInput(1, "Is it?", <<"auth">>),
    QueryInput(1, "Where do we debug?", <<>>),
    QueryInput(1, "Any vulnerability or Issue to optimize?", <<>>),
    QueryInput(1, "Is the performance secure?", <<>>),
    QueryInput(1, "Where is the typescript?", <<>>),
    QueryInput(MaxRepos + 1, "Is it?", <<>>) }

NextSuggestions ==
  \/ InsertRepository
  \/ \E f \in SuggestionFiles : InsertCodeFile(f)
  \/ \E x \in Issues : InsertCodeIssue(x)
  \/ \E input \in SuggestionInputs : naturalLanguageQuery(input)

SpecSuggestions == Init /\ [][NextSuggestions]_vars

-----------------------------------------------------------------------------
(* Properties of searchCode, under SpecSearch *)

\* the last call was a searchCode call that returned
SearchReturned == ret.op = "searchCode" /\ ret.status = "ok"

\* the newest row of the search-query log
LastSearchQuery == search_queries[Len(search_queries)]

\* C1, as the claim states it: the results_count of the log row a searchCode
\* call writes equals the length of the array the same call returns.  The
\* handler logs the length of the array before it is cut to 50 entries.
C1_LoggedCountIsReturnedLength ==
  SearchReturned => LastSearchQuery.results_count = Len(ret.value)

\* C2: every searchCode call appends exactly one row to the search-query log,
\* with the call's repository_id and query and query_type 'code', whether or
\* not anything matches and whether or not the repository exists; the rows
\* logged before stay as they are, and no other step touches the log.
C2_OneLogRowPerSearch ==
  [][ IF ret'.op = "searchCode"
      THEN /\ Len(search_queries') = Len(search_queries) + 1
           /\ SubSeq(search_queries', 1, Len(search_queries)) = search_queries
           /\ search_queries'[Len(search_queries')].repository_id
                = ret'.input.repository_id
           /\ search_queries'[Len(search_queries')].query = ret'.input.query
           /\ search_queries'[Len(search_queries')].query_type = "code"
      ELSE search_queries' = search_queries ]_vars

\* two searches were logged, the last one for a repository that does not
\* exist and with nothing found
C2_Witness ==
  /\ SearchReturned
  /\ Len(search_queries) = 2
  /\ \A k \in 1..Len(repositories) :
       repositories[k].id # ret.input.repository_id
  /\ ret.value = <<>>
  /\ LastSearchQuery.repository_id = ret.input.repository_id

\* C6: the array searchCode returns is sorted by relevance_score in
\* non-increasing order and has at most 50 entries.
C6_SortedAndAtMostFifty ==
  SearchReturned =>
    /\ Len(ret.value) <= 50
    /\ \A i, j \in 1..Len(ret.value) :
         i < j => ret.value[i].relevance_score >= ret.value[j].relevance_score

\* more than 50 lines matched, with different scores, and 50 were returned
C6_Witness ==
  /\ SearchReturned
  /\ LastSearchQuery.results_count > 50
  /\ Len(ret.value) = 50
  /\ ret.value[1].relevance_score > ret.value[50].relevance_score

\* the score the rule gives a matching line, in tenths
RuleScore(line, query) ==
  LET exactCase == Includes(line, query)
      atStart == StartsWith(TrimStart(ToLowerCase(line)), ToLowerCase(query))
  IN  IF exactCase /\ atStart THEN 10
      ELSE IF exactCase THEN 8
      ELSE IF atStart THEN 7
      ELSE 5

\* P(line) holds of the line a result of the last search points at
ResultLineHas(result, P(_)) ==
  \E k \in 1..Len(code_files) :
    /\ code_files[k].path = result.file_path
    /\ code_files[k].repository_id = ret.input.repository_id
    /\ LET lines == SplitLines(code_files[k].content)
       IN  /\ result.line_number \in 1..Len(lines)
           /\ P(lines[result.line_number])

\* C7, as the claim states it: every result's score follows the rule, is one
\* of 0.5, 0.7, 0.8, 1.0, and a line that is exactly the query scores 1.0.
C7_ExactLineAlwaysScoresOne ==
  SearchReturned =>
    \A r \in 1..Len(ret.value) :
      LET Scored(line) ==
            /\ ret.value[r].relevance_score = RuleScore(line, ret.input.query)
            /\ ret.value[r].relevance_score \in {5, 7, 8, 10}
            /\ line = ret.input.query => ret.value[r].relevance_score = 10
      IN  ResultLineHas(ret.value[r], Scored)

\* C7, amended: every result's score is 0.5, plus 0.3 if the line contains
\* the query with exact case, plus 0.2 if the line without its leading
\* whitespace, lowercased, starts with the lowercased query; it is one of
\* 0.5, 0.7, 0.8, 1.0; and a line that is exactly the query scores 1.0 when
\* the query does not begin with whitespace.
C7_ScoreRule ==
  SearchReturned =>
    \A r \in 1..Len(ret.value) :
      LET Scored(line) ==
            /\ ret.value[r].relevance_score = RuleScore(line, ret.input.query)
            /\ ret.value[r].relevance_score \in {5, 7, 8, 10}
            /\ (line = ret.input.query
                  /\ TrimStart(ret.input.query) = ret.input.query)
                 => ret.value[r].relevance_score = 10
      IN  ResultLineHas(ret.value[r], Scored)

\* a search returned a line that is exactly its query, scored 1.0, and a line
\* that differs from the query in case only, scored below 1.0
C7_Witness ==
  /\ SearchReturned
  /\ TrimStart(ret.input.query) = ret.input.query
  /\ \E r \in 1..Len(ret.value) :
       LET IsQuery(line) == line = ret.input.query
       IN  /\ ResultLineHas(ret.value[r], IsQuery)
           /\ ret.value[r].relevance_score = 10
  /\ \E r \in 1..Len(ret.value) : ret.value[r].relevance_score = 7


-----------------------------------------------------------------------------
(* Properties of analyzeCodeFile, under SpecAnalyze *)

\* the last call was an analyzeCodeFile call that returned
AnalyzeReturned == ret.op = "analyzeCodeFile" /\ ret.status = "ok"

\* the file row with the given id
FileById(fileId) ==
  code_files[CHOOSE k \in 1..Len(code_files) : code_files[k].id = fileId]

\* the function rows of a file
FunctionsOfFile(fileId) ==
  LET OfFile(row) == row.file_id = fileId
  IN  SelectSeq(code_functions, OfFile)

\* C3: each completed analyzeCodeFile call on a file whose content yields n
\* functions adds exactly n function rows for that file and leaves every row
\* inserted before in place, so k calls add k*n rows.
C3_EachAnalysisAddsAllFunctions ==
  [][ (ret'.op = "analyzeCodeFile" /\ ret'.status = "ok") =>
        LET file == FileById(ret'.fileId)
            n == Len(extractFunctions(file.content, file.language))
            before == Len(code_functions)
        IN  /\ Len(code_functions') = before + n
            /\ SubSeq(code_functions', 1, before) = code_functions
            /\ \A k \in (before + 1)..(before + n) :
                 code_functions'[k].file_id = ret'.fileId ]_vars

\* a file with one function was analysed three times and has three rows for
\* that function
C3_Witness ==
  /\ AnalyzeReturned
  /\ Len(extractFunctions(FileById(ret.fileId).content,
                          FileById(ret.fileId).language)) = 1
  /\ Len(FunctionsOfFile(ret.fileId)) = 3
  /\ \A k \in 1..3 :
       FunctionsOfFile(ret.fileId)[k].name = FunctionsOfFile(ret.fileId)[1].name

\* C4: analyzeCodeFile called with an id no file row has fails with an error
\* whose message contains the id, and writes nothing: no file row changes and
\* no function row is inserted.
C4_MissingFileFailsWithoutWrite ==
  [][ (/\ ret'.op = "analyzeCodeFile"
       /\ \A k \in 1..Len(code_files) : code_files[k].id # ret'.fileId) =>
        /\ ret'.status = "error"
        /\ Includes(ret'.message, ToString(ret'.fileId))
        /\ Includes(ret'.message, "not found")
        /\ code_files' = code_files
        /\ code_functions' = code_functions
        /\ UNCHANGED calls
        /\ db_ops' = <<"select code_files">> ]_vars

\* the call failed for id 2 while the store holds the file with id 1
C4_Witness ==
  /\ ret.op = "analyzeCodeFile"
  /\ ret.status = "error"
  /\ Len(code_files) = 1
  /\ ret.fileId = 2
  /\ Includes(ret.message, "2")

\* C5: analysing a file again, its content and language unchanged, stores and
\* returns the same ai_summary and complexity_score as the analysis before;
\* of the file record only last_updated differs.
C5_ReanalysisKeepsSummaryAndScore ==
  [][ (ret'.op = "analyzeCodeFile" /\ ret'.status = "ok") =>
        LET old == FileById(ret'.fileId)
            new == CHOOSE row \in { code_files'[k] : k \in 1..Len(code_files') } :
                     row.id = ret'.fileId
        IN  /\ ~IsNull(old.complexity_score) =>
                 /\ new.ai_summary = old.ai_summary
                 /\ new.complexity_score = old.complexity_score
                 /\ new = [old EXCEPT !.last_updated = new.last_updated]
            /\ (AnalyzeReturned /\ ret.fileId = ret'.fileId) =>
                 /\ ret'.value.ai_summary = ret.value.ai_summary
                 /\ ret'.value.complexity_score = ret.value.complexity_score
                 /\ ret'.value =
                      [ret.value EXCEPT !.last_updated = ret'.value.last_updated]
      ]_vars

\* a file was analysed at least twice, the last time later than its creation:
\* it has two rows for its first function
C5_Witness ==
  /\ AnalyzeReturned
  /\ ret.value.last_updated > ret.value.created_at
  /\ ~IsNull(ret.value.ai_summary)
  /\ Len(FunctionsOfFile(ret.fileId)) = 2
  /\ FunctionsOfFile(ret.fileId)[1].name = FunctionsOfFile(ret.fileId)[2].name

\* content without a control-flow keyword before a parenthesis, without a
\* brace and without a named function declaration
PlainContent(content) ==
  /\ \A kw \in {"if", "for", "while", "switch", "catch"} :
       CountKeywordParen(content, kw, 1) = 0
  /\ ~Includes(content, "{")
  /\ ~Includes(content, "}")
  /\ CountFunctionWord(content, 1) = 0

\* a decimal text with exactly two digits behind the point
TwoDecimals(text) ==
  /\ Len(text) >= 4
  /\ CharAt(text, Len(text) - 2) = "."
  /\ \A k \in 1..Len(text) :
       k # Len(text) - 2 => IndexIn(Digits, CharAt(text, k)) # 0

\* C8: every complexity score stored or returned is at least 1 and has no
\* more than two decimals, and plain content scores exactly 1.
C8_ScoreAtLeastOne ==
  /\ \A k \in 1..Len(code_files) :
       ~IsNull(code_files[k].complexity_score) =>
         /\ TwoDecimals(Val(code_files[k].complexity_score))
         /\ parseFloat(Val(code_files[k].complexity_score)) >= 100
         /\ PlainContent(code_files[k].content) =>
              Val(code_files[k].complexity_score) = "1.00"
  /\ AnalyzeReturned =>
       /\ ~IsNull(ret.value.complexity_score)
       /\ Val(ret.value.complexity_score) >= 100
       /\ PlainContent(ret.value.content) =>
            Val(ret.value.complexity_score) = 100

\* the file holding only a comment was analysed and scored 1
C8_Witness ==
  /\ AnalyzeReturned
  /\ ret.value.content = "// Just a comment"
  /\ ret.value.complexity_score = Some(100)
  /\ FileById(ret.fileId).complexity_score = Some("1.00")

\* C9: every function row has line_end >= line_start.
C9_LineEndNotBeforeStart ==
  \A k \in 1..Len(code_functions) :
    code_functions[k].line_end >= code_functions[k].line_start

\* an analysis stored a function that starts behind line 1 and spans several
\* lines
C9_Witness ==
  /\ AnalyzeReturned
  /\ \E k \in 1..Len(code_functions) :
       /\ code_functions[k].line_start > 1
       /\ code_functions[k].line_end > code_functions[k].line_start


-----------------------------------------------------------------------------
(* Properties of naturalLanguageQuery, under SpecQuery *)

\* C10: naturalLanguageQuery called with a repository_id no repository row
\* has fails with a not-found error naming the id, after reading the
\* repositories table only, and returns no answer.
C10_MissingRepositoryFailsFirst ==
  (/\ ret.op = "naturalLanguageQuery"
   /\ \A k \in 1..Len(repositories) :
        repositories[k].id # ret.input.repository_id) =>
    /\ ret.status = "error"
    /\ Includes(ret.message, "not found")
    /\ Includes(ret.message, ToString(ret.input.repository_id))
    /\ "value" \notin DOMAIN ret
    /\ db_ops = <<"select repositories">>

\* the call failed although another repository exists and the store holds a
\* file that names the missing repository, and an issue
C10_Witness ==
  /\ ret.op = "naturalLanguageQuery"
  /\ ret.status = "error"
  /\ Len(repositories) >= 1
  /\ \E k \in 1..Len(code_files) :
       code_files[k].repository_id = ret.input.repository_id
  /\ Len(code_issues) >= 1


\* the last call was a naturalLanguageQuery call that returned
QueryReturned == ret.op = "naturalLanguageQuery" /\ ret.status = "ok"

\* the file query of the last naturalLanguageQuery call selects no file row
NoFileSelected ==
  \A k \in 1..Len(code_files) :
    ~QueryFileCondition(code_files[k], ret.input,
                        extractKeywords(ret.input.question))

\* C11: when the file selection of naturalLanguageQuery yields no file, the
\* answer has the fixed "No relevant code files found" summary quoting the
\* question, empty key_functions, potential_issues and related_files, and
\* exactly the two fixed suggestions that ask for more detail.
C11_NoFileAnswer ==
  (QueryReturned /\ NoFileSelected) =>
    /\ ret.value.summary =
         "No relevant code files found for the question: \""
           \o ret.input.question
           \o "\". The repository may not contain code related to your query."
    /\ ret.value.key_functions = <<>>
    /\ ret.value.potential_issues = <<>>
    /\ ret.value.related_files = <<>>
    /\ ret.value.suggestions =
         <<"Consider adding more detailed file paths or context to your query",
           "Try using specific function names or file names in your question">>

\* the query selected no file although its repository has a file with a
\* function row and an issue
C11_Witness ==
  /\ QueryReturned
  /\ NoFileSelected
  /\ \E k \in 1..Len(code_files) :
       /\ code_files[k].repository_id = ret.input.repository_id
       /\ \E f \in 1..Len(code_functions) :
            code_functions[f].file_id = code_files[k].id
       /\ \E x \in 1..Len(code_issues) :
            code_issues[x].file_id = code_files[k].id


-----------------------------------------------------------------------------
(* Properties of the function selection, under SpecKeyFunctions *)

\* the files the last naturalLanguageQuery call selected
SelectedFiles ==
  LET Relevant(file) ==
        QueryFileCondition(file, ret.input,
                           extractKeywords(ret.input.question))
  IN  Take(SelectSeq(code_files, Relevant), FileLimit)

\* the function rows of the selected files
FunctionsOfSelected ==
  LET OfSelected(row) ==
        \E k \in 1..Len(SelectedFiles) : row.file_id = SelectedFiles[k].id
  IN  SelectSeq(code_functions, OfSelected)

\* those of them that match a keyword of the question
MatchingOfSelected ==
  LET Matching(row) ==
        FunctionMatchesKeyword(row, extractKeywords(ret.input.question))
  IN  SelectSeq(FunctionsOfSelected, Matching)

\* C12, as the claim states it: if at most 5 function rows of the selected
\* files match a keyword, the name of each of them is in key_functions.
C12_EveryMatchIsKeyFunction ==
  (QueryReturned /\ Len(MatchingOfSelected) <= 5) =>
    \A k \in 1..Len(MatchingOfSelected) :
      Contains(ret.value.key_functions, MatchingOfSelected[k].name)

\* C12, amended: if the selected files have at most 10 function rows, so
\* that the fetch of 10 rows reads them all, and at most 5 of them match a
\* keyword, the name of each matching row is in key_functions.
C12_EveryFetchedMatchIsKeyFunction ==
  (/\ QueryReturned
   /\ Len(FunctionsOfSelected) <= 10
   /\ Len(MatchingOfSelected) <= 5) =>
    \A k \in 1..Len(MatchingOfSelected) :
      Contains(ret.value.key_functions, MatchingOfSelected[k].name)

\* the selected files have between 6 and 10 function rows, one of them
\* matches, and five rows that do not match stand before it
C12_Witness ==
  /\ QueryReturned
  /\ Len(FunctionsOfSelected) \in 6..10
  /\ Len(MatchingOfSelected) = 1
  /\ \A k \in 1..5 :
       ~FunctionMatchesKeyword(FunctionsOfSelected[k],
                               extractKeywords(ret.input.question))
  /\ Contains(ret.value.key_functions, MatchingOfSelected[1].name)


-----------------------------------------------------------------------------
(* Properties of getDependencyVisualization, under SpecGraph *)

\* the last call was a getDependencyVisualization call that returned
GraphReturned == ret.op = "getDependencyVisualization" /\ ret.status = "ok"

\* the paths at the ends of the dependency edges of the graph's repository
EdgePaths ==
  UNION { {code_dependencies[k].from_file, code_dependencies[k].to_file} :
            k \in { i \in 1..Len(code_dependencies) :
                      code_dependencies[i].repository_id = ret.repositoryId } }

\* C13: the nodes of the graph are exactly the distinct paths that occur as
\* from_file or to_file of an edge of the repository: each such path has one
\* node, no node id occurs twice, and a file path that is in no edge has no
\* node.
C13_NodesAreEdgePaths ==
  GraphReturned =>
    LET nodes == ret.value.nodes
    IN  /\ { nodes[k].id : k \in 1..Len(nodes) } = EdgePaths
        /\ \A i, j \in 1..Len(nodes) : nodes[i].id = nodes[j].id => i = j
        /\ \A k \in 1..Len(code_files) :
             code_files[k].path \notin EdgePaths =>
               \A i \in 1..Len(nodes) : nodes[i].id # code_files[k].path

\* two edges share an endpoint and the repository has a file that is in no
\* edge: three nodes, none for the file
C13_Witness ==
  /\ GraphReturned
  /\ Len(ret.value.edges) = 2
  /\ Len(ret.value.nodes) = 3
  /\ \E k \in 1..Len(code_files) :
       /\ code_files[k].repository_id = ret.repositoryId
       /\ code_files[k].path \notin EdgePaths


\* the extension of a path as the rule reads it: the lowercased text behind
\* the last '.', none when the path has no '.'
RuleExtension(path) ==
  IF Includes(path, ".") THEN Some(ToLowerCase(SplitPop(path, "."))) ELSE Null

\* the type the rule gives a node of the last graph
RuleType(path) ==
  LET extension == RuleExtension(path)
      basename == ToLowerCase(SplitPop(path, "/"))
      HasLanguage(k) ==
        /\ code_files[k].repository_id = ret.repositoryId
        /\ code_files[k].path = path
        /\ ~IsNull(code_files[k].language)
        /\ Val(code_files[k].language) # ""
  IN  IF extension \in {Some("json"), Some("yaml"), Some("yml")}
      THEN {"config"}
      ELSE IF extension \in {Some("md"), Some("txt"), Some("rst")}
      THEN {"documentation"}
      ELSE IF Includes(basename, "test") \/ Includes(basename, "spec")
      THEN {"test"}
      ELSE IF Includes(basename, "config") \/ Includes(basename, "setting")
      THEN {"config"}
      ELSE IF \/ Includes(basename, "util")
              \/ Includes(basename, "helper")
              \/ Includes(basename, "lib")
      THEN {"utility"}
      ELSE IF \/ Includes(basename, "main")
              \/ Includes(basename, "index")
              \/ Includes(basename, "app")
      THEN {"entry"}
      ELSE IF \E k \in 1..Len(code_files) : HasLanguage(k)
      THEN { ToLowerCase(Val(code_files[k].language)) :
               k \in { i \in 1..Len(code_files) : HasLanguage(i) } }
      ELSE {"file"}

\* C14, as the claim states it: the type of every node is given by the first
\* matching rule, extension rules first, and a path without '.' has no
\* extension.  The handler takes the whole path as the extension of a path
\* without '.', so a node "yaml" is typed 'config'.
C14_TypeByFirstRule ==
  GraphReturned =>
    \A k \in 1..Len(ret.value.nodes) :
      ret.value.nodes[k].type \in RuleType(ret.value.nodes[k].id)


-----------------------------------------------------------------------------
(* Properties of getCodeIssues, under SpecIssues *)

\* the last call was a getCodeIssues call that returned
IssuesReturned == ret.op = "getCodeIssues" /\ ret.status = "ok"

\* the issue rows whose file is in the repository of the last call and that
\* pass its filters; PathGiven(path) says when a file_path counts as supplied
ExpectedIssues(PathGiven(_)) ==
  LET Supplied(field) == ~IsNull(ret.filters) /\ ~IsNull(Val(ret.filters)[field])
      Value(field) == Val(Val(ret.filters)[field])
  IN  { code_issues[i] : i \in { x \in 1..Len(code_issues) :
          \E k \in 1..Len(code_files) :
            /\ code_files[k].id = code_issues[x].file_id
            /\ code_files[k].repository_id = ret.repositoryId
            /\ (Supplied("severity") /\ Value("severity") # <<>>) =>
                 InList(Value("severity"), code_issues[x].severity)
            /\ (Supplied("issue_type") /\ Value("issue_type") # <<>>) =>
                 InList(Value("issue_type"), code_issues[x].issue_type)
            /\ (Supplied("file_path") /\ PathGiven(Value("file_path"))) =>
                 code_files[k].path = Value("file_path") } }

\* the rows returned are all different and make up the given set
ReturnsExactly(expected) ==
  /\ { ret.value[k] : k \in 1..Len(ret.value) } = expected
  /\ Len(ret.value) = Cardinality(expected)

-----------------------------------------------------------------------------
(* Properties of concurrent requests, under SpecRequests *)

\* the analyses of a file whose select found the row
AnalysesOf(fileId) ==
  { p \in Procs : /\ calls[p].op = "analyzeCodeFile"
                  /\ calls[p].fileId = fileId
                  /\ calls[p].existingFile # Null }

\* the analyses that have executed their update statement
UpdatedBy(fileId) ==
  { p \in AnalysesOf(fileId) :
      calls[p].pc \in {"extract", "insert", "return", "done"} }

\* the analyses that are behind their insert statement, or had none to make
InsertedBy(fileId) ==
  { p \in AnalysesOf(fileId) : calls[p].pc \in {"return", "done"} }

\* k batches, one behind the other
RECURSIVE Batches(_, _)
Batches(batch, k) ==
  IF k = 0 THEN <<>> ELSE batch \o Batches(batch, k - 1)

\* a function row without its id
FunctionOfRow(row) ==
  [name |-> row.name, signature |-> row.signature,
   line_start |-> row.line_start, line_end |-> row.line_end]

\* C16: when analyzeCodeFile calls on the same existing file run at the same
\* time, then however their selects, updates and inserts interleave, no call
\* fails, every call that is behind its insert has added its whole batch of n
\* function rows (two finished calls: 2n rows), and once a call has updated
\* the file its ai_summary and complexity_score are those of a single call.
C16_ConcurrentAnalysesBothComplete ==
  \A fileId \in FileIds :
    AnalysesOf(fileId) # {} =>
      LET file == FileById(fileId)
          batch == extractFunctions(file.content, file.language)
          rows == FunctionsOfFile(fileId)
      IN  /\ \A p \in AnalysesOf(fileId) : calls[p].status # "error"
          /\ \A p \in AnalysesOf(fileId) :
               calls[p].pc = "done" => calls[p].status = "ok"
          /\ [k \in 1..Len(rows) |-> FunctionOfRow(rows[k])]
               = Batches(batch, Cardinality(InsertedBy(fileId)))
          /\ UpdatedBy(fileId) # {} =>
               /\ file.ai_summary =
                    Some(generateAISummary(file.content, file.language))
               /\ file.complexity_score =
                    Some(NumericText(calculateComplexityScore(file.content)))

\* two analyses of pair.js, whose content has two functions, have both
\* returned the updated record; the file has four function rows and the
\* summary of a single call
C16_Witness ==
  /\ AnalysesOf(1) = {1, 2}
  /\ calls[1].pc = "done" /\ calls[2].pc = "done"
  /\ calls[1].status = "ok" /\ calls[2].status = "ok"
  /\ FileById(1).path = "pair.js"
  /\ Len(FunctionsOfFile(1)) = 4
  /\ Val(calls[1].value).id = 1 /\ Val(calls[2].value).id = 1
  /\ FileById(1).ai_summary =
       Some(generateAISummary(FileById(1).content, FileById(1).language))

\* C17: in every operation that writes to the store the writes come behind
\* all of its computation: an analysis that has executed its update statement
\* has computed its summary, its score and its function list, and a search
\* that has written its log row has its sorted and truncated result.
C17_WritesComeLast ==
  \A p \in Procs :
    /\ ( /\ calls[p].op = "analyzeCodeFile"
         /\ calls[p].updatedFiles # Null )
       => /\ calls[p].aiSummary # Null
          /\ calls[p].complexityScore # Null
          /\ calls[p].functions # Null
    /\ ( /\ calls[p].op = "searchCode"
         /\ calls[p].pc \in {"sort", "done"} )
       => calls[p].value # Null

-----------------------------------------------------------------------------
(* Properties of analyzeCodeFile over several files, under SpecFrame *)

\* the columns of a file row that an analysis does not set
KeptColumns(row) ==
  [id |-> row.id, repository_id |-> row.repository_id, path |-> row.path,
   content |-> row.content, language |-> row.language, size |-> row.size,
   created_at |-> row.created_at]

\* C18: a successful analyzeCodeFile call changes only ai_summary,
\* complexity_score and last_updated of the target file row and appends
\* function rows with the target's file_id; the other columns of the target,
\* every other file row, every function row that was there before and every
\* other table stay as they were.
C18_AnalysisChangesOnlyItsTarget ==
  [][ (ret'.op = "analyzeCodeFile" /\ ret'.status = "ok") =>
        /\ Len(code_files') = Len(code_files)
        /\ \A k \in 1..Len(code_files) :
             IF code_files[k].id = ret'.fileId
             THEN KeptColumns(code_files'[k]) = KeptColumns(code_files[k])
             ELSE code_files'[k] = code_files[k]
        /\ Len(code_functions') >= Len(code_functions)
        /\ SubSeq(code_functions', 1, Len(code_functions)) = code_functions
        /\ \A k \in (Len(code_functions) + 1)..Len(code_functions') :
             code_functions'[k].file_id = ret'.fileId
        /\ UNCHANGED <<repositories, code_dependencies, code_issues,
                       search_queries>> ]_vars

\* the second of two files was analysed after the first: the first still has
\* the summary, the score and the date of its own analysis and its function
\* row, and the second has its two function rows behind it
C18_Witness ==
  /\ AnalyzeReturned
  /\ ret.fileId = 2
  /\ Len(code_files) = 2
  /\ code_files[1].path = "hello.js"
  /\ code_files[2].path = "pair.js"
  /\ code_files[1].ai_summary # Null
  /\ code_files[1].ai_summary # code_files[2].ai_summary
  /\ code_files[1].last_updated < code_files[2].last_updated
  /\ code_files[2].created_at < code_files[2].last_updated
  /\ Len(code_functions) = 3
  /\ code_functions[1].file_id = 1
  /\ code_functions[2].file_id = 2 /\ code_functions[3].file_id = 2

-----------------------------------------------------------------------------
(* Properties of the reading handlers, under SpecReaders *)

\* C19: naturalLanguageQuery and getDependencyVisualization write to no
\* table, and searchCode writes one row of the search-query log and nothing
\* else: the repository, file, function, dependency and issue rows behind any
\* of these calls are the rows before it.
C19_ReadersWriteOnlyTheSearchLog ==
  [][ /\ ret'.op \in {"naturalLanguageQuery", "getDependencyVisualization"}
         => UNCHANGED <<repositories, code_files, code_functions,
                        code_dependencies, code_issues, search_queries>>
      /\ ret'.op = "searchCode"
         => /\ UNCHANGED <<repositories, code_files, code_functions,
                           code_dependencies, code_issues>>
            /\ Len(search_queries') = Len(search_queries) + 1
            /\ SubSeq(search_queries', 1, Len(search_queries))
                 = search_queries ]_vars

\* every table has a row, the file is analysed and has a function row, two
\* searches are logged, and a graph with two nodes has just been returned
C19_Witness ==
  /\ ret.op = "getDependencyVisualization"
  /\ Len(ret.value.nodes) = 2
  /\ Len(repositories) = 1
  /\ Len(code_files) = 1
  /\ code_files[1].ai_summary # Null
  /\ Len(code_functions) = 1
  /\ Len(code_dependencies) = 1
  /\ Len(code_issues) = 1
  /\ Len(search_queries) = 2

-----------------------------------------------------------------------------
(* Properties of searchCode for any query text, under SpecSearchLiteral *)

\* the files of the searched repository that pass the file-type filter
FilesOfSearch(input) ==
  LET Passes(file) ==
        /\ file.repository_id = input.repository_id
        /\ \/ Len(input.file_types) = 0
           \/ \E k \in 1..Len(input.file_types) :
                ILikeNullable(file.language, input.file_types[k])
  IN  SelectSeq(code_files, Passes)

\* the number of results for line i of the files with the given path
ResultsFor(path, i) ==
  Cardinality({ k \in 1..Len(ret.value) :
                  /\ ret.value[k].file_path = path
                  /\ ret.value[k].line_number = i })

\* the number of the given files with that path whose line i contains the
\* lowercased query
LinesFor(files, path, i, query) ==
  Cardinality({ k \in 1..Len(files) :
                  /\ files[k].path = path
                  /\ i <= Len(SplitLines(files[k].content))
                  /\ Includes(ToLowerCase(SplitLines(files[k].content)[i]),
                              ToLowerCase(query)) })

\* C20: for every file of the searched repository that passes the file-type
\* filter, a result list that was not truncated has exactly one result for
\* each line whose lowercased text contains the lowercased query, with that
\* line's 1-based number and the file's path, and none for any other line;
\* this holds for every query text, with '%', '_' or '\' in it or not.
C20_OneResultPerContainingLine ==
  (SearchReturned /\ Len(ret.value) < ResultLimit) =>
    LET files == FilesOfSearch(ret.input)
    IN  /\ \A k \in 1..Len(files) :
             \A i \in 1..Len(SplitLines(files[k].content)) :
               ResultsFor(files[k].path, i)
                 = LinesFor(files, files[k].path, i, ret.input.query)
        /\ \A k \in 1..Len(ret.value) :
             LinesFor(files, ret.value[k].file_path,
                      ret.value[k].line_number, ret.input.query) > 0

-----------------------------------------------------------------------------
(* Properties of the analysis functions, under SpecAnalysis *)

\* the number of places of s where the text p stands
CountLiteral(s, p) ==
  Cardinality({ i \in 1..Len(s) : StartsWithAt(s, p, i) })

\* the number of places of s where "function " stands before a word character
CountFunctionLiteral(s) ==
  Cardinality({ i \in 1..Len(s) :
                  /\ StartsWithAt(s, "function ", i)
                  /\ i + 9 <= Len(s)
                  /\ IsWord(CharAt(s, i + 9)) })

\* the number of places of s where kw stands before "(", with nothing but
\* white space between them
CountKeywordBeforeParen(s, kw) ==
  Cardinality({ i \in 1..Len(s) :
                  /\ StartsWithAt(s, kw, i)
                  /\ \E j \in (i + Len(kw))..Len(s) :
                       /\ CharAt(s, j) = "("
                       /\ \A k \in (i + Len(kw))..(j - 1) :
                            IsSpace(CharAt(s, k)) })

\* the end of a declaration "function", white space, identifier that starts
\* at i (the place behind the identifier), or 0 when none starts there
DeclarationEnd(s, i) ==
  IF /\ StartsWithAt(s, "function", i)
     /\ \E j \in (i + 9)..Len(s) :
          /\ IsWord(CharAt(s, j))
          /\ \A k \in (i + 8)..(j - 1) : IsSpace(CharAt(s, k))
  THEN LET j == CHOOSE j \in (i + 9)..Len(s) :
                  /\ IsWord(CharAt(s, j))
                  /\ \A k \in (i + 8)..(j - 1) : IsSpace(CharAt(s, k))
       IN  CHOOSE e \in (j + 1)..(Len(s) + 1) :
             /\ \A k \in j..(e - 1) : IsWord(CharAt(s, k))
             /\ (e > Len(s) \/ ~IsWord(CharAt(s, e)))
  ELSE 0

\* the declarations of s that are counted: one is not counted when its word
\* function is the identifier of a counted declaration before it
CountedDeclarations(s) ==
  LET counted[i \in 0..Len(s)] ==
        IF i = 0 THEN {}
        ELSE IF /\ DeclarationEnd(s, i) # 0
                /\ \A j \in counted[i - 1] : DeclarationEnd(s, j) <= i
             THEN counted[i - 1] \cup {i}
             ELSE counted[i - 1]
  IN  counted[Len(s)]

\* C21 as stated: the score is 1, plus the number of places where "if (",
\* "for (", "while (", "switch (" or "catch (" stands, plus 0.5 times the
\* deepest brace nesting, plus 0.3 times the number of places where
\* "function " stands before an identifier, rounded to two decimals.
C21_ScoreOfLiteralPatterns ==
  ret.op = "calculateComplexityScore" =>
    ret.value =
      RoundHundredths(
        1000
        + 1000 * CountLiteral(ret.content, "if (")
        + 1000 * CountLiteral(ret.content, "for (")
        + 1000 * CountLiteral(ret.content, "while (")
        + 1000 * CountLiteral(ret.content, "switch (")
        + 1000 * CountLiteral(ret.content, "catch (")
        + 500 * calculateMaxBraceDepth(ret.content)
        + 300 * CountFunctionLiteral(ret.content))

\* C21, amended: the score is 1, plus the number of places where if, for,
\* while, switch or catch stands before "(" with any white space, or none,
\* between them, plus 0.5 times the deepest brace nesting, plus 0.3 times the
\* number of counted declarations (function, white space of any kind,
\* identifier; not counted when its word function is the identifier of the
\* counted declaration before it), rounded to two decimals.
C21_ScoreOfPatterns ==
  ret.op = "calculateComplexityScore" =>
    ret.value =
      RoundHundredths(
        1000
        + 1000 * CountKeywordBeforeParen(ret.content, "if")
        + 1000 * CountKeywordBeforeParen(ret.content, "for")
        + 1000 * CountKeywordBeforeParen(ret.content, "while")
        + 1000 * CountKeywordBeforeParen(ret.content, "switch")
        + 1000 * CountKeywordBeforeParen(ret.content, "catch")
        + 500 * calculateMaxBraceDepth(ret.content)
        + 300 * Cardinality(CountedDeclarations(ret.content)))

\* a content with "if(" and two function words of which the second is the
\* identifier of the first scores 1 + 1 + 0.3
C21_Witness ==
  /\ ret.op = "calculateComplexityScore"
  /\ ret.content = "if(function\n function f"
  /\ ret.value = 230

\* "{" minus "}" among the first k characters of s
PrefixBalance(s, k) ==
  Cardinality({ i \in 1..k : CharAt(s, i) = "{" })
    - Cardinality({ i \in 1..k : CharAt(s, i) = "}" })

\* the greatest balance of a prefix of s; the empty prefix has balance 0
GreatestPrefixBalance(s) ==
  CHOOSE m \in { PrefixBalance(s, k) : k \in 0..Len(s) } :
    \A k \in 0..Len(s) : PrefixBalance(s, k) <= m

\* C22: calculateMaxBraceDepth is the greatest value, over the prefixes of
\* the content, of the number of "{" minus the number of "}", and 0 when no
\* prefix has a positive value; it is never negative, it is 0 without braces,
\* and a "}" that takes the count below zero does not set the count back.
C22_DepthIsGreatestPrefixBalance ==
  ret.op = "calculateMaxBraceDepth" =>
    /\ ret.value = GreatestPrefixBalance(ret.content)
    /\ ret.value >= 0
    /\ (~Includes(ret.content, "{") /\ ~Includes(ret.content, "}"))
         => ret.value = 0

\* a closing brace before two opening ones: the count goes to -1, 0, 1
C22_Witness ==
  /\ ret.op = "calculateMaxBraceDepth"
  /\ ret.content = "}{{"
  /\ ret.value = 1

\* the text from line s of the content to its end
TextFrom(lines, s) == JoinLines(SubSeq(lines, s, Len(lines)))

\* the line of the content on which character k of TextFrom(lines, s) stands
LineOfChar(text, s, k) ==
  s + Cardinality({ i \in 1..k : CharAt(text, i) = "\n" })

\* character k of text is a "}" that takes the balance to 0 after the balance
\* was positive
ClosesPositive(text, k) ==
  /\ CharAt(text, k) = "}"
  /\ PrefixBalance(text, k) = 0
  /\ \E i \in 1..k : PrefixBalance(text, i) > 0

\* the end line by the balance alone
LineEndByBalance(lines, s) ==
  LET text == TextFrom(lines, s)
      closes == { k \in 1..Len(text) : ClosesPositive(text, k) }
  IN  IF closes = {} THEN s ELSE LineOfChar(text, s, Least(closes))

\* character k of text is a "}" that takes the count to 0 and stands behind a
\* "{"
ClosesOpened(text, k) ==
  /\ CharAt(text, k) = "}"
  /\ PrefixBalance(text, k) = 0
  /\ \E i \in 1..k : CharAt(text, i) = "{"

\* character k of text is the last of its line, and there the count is 0 and
\* a "{" stands before
EndsLineAtZero(text, k) ==
  /\ (k = Len(text) \/ CharAt(text, k + 1) = "\n")
  /\ PrefixBalance(text, k) = 0
  /\ \E i \in 1..k : CharAt(text, i) = "{"

\* the end line by the count and the flag of the scan
LineEndByScan(lines, s) ==
  LET text == TextFrom(lines, s)
      stops == { k \in 1..Len(text) :
                   ClosesOpened(text, k) \/ EndsLineAtZero(text, k) }
  IN  IF stops = {} THEN s
      ELSE IF ClosesOpened(text, Least(stops))
           THEN LineOfChar(text, s, Least(stops))
           ELSE s

\* the records of named functions among the extracted ones
NamedFunctionRecords ==
  { k \in 1..Len(ret.value) : FunctionMatch(ret.value[k].signature) # <<>> }

\* C23 as stated: line_end of a named function at line s is the first line,
\* counting braces from the start of line s, on which the balance comes back
\* to 0 after it was positive; it is s when that never happens.
C23_LineEndWhereBalanceReturns ==
  ret.op = "extractFunctions" =>
    \A k \in NamedFunctionRecords :
      ret.value[k].line_end =
        LineEndByBalance(SplitLines(ret.content), ret.value[k].line_start)

\* C23, amended: line_end of a named function at line s is the first line,
\* counting braces from the start of line s, on which a "}" takes the count
\* to 0 behind a "{"; it is s when no line does, and also when before that a
\* line ends with the count at 0 behind a "{" (a "}" that came before the
\* first "{" was made up for), where the scan stops.
C23_LineEndWhereScanStops ==
  ret.op = "extractFunctions" =>
    \A k \in NamedFunctionRecords :
      ret.value[k].line_end =
        LineEndByScan(SplitLines(ret.content), ret.value[k].line_start)

\* "function f() } {" ends with the count at 0: the scan stops there and the
\* braces on lines 2 and 3 are not looked at
C23_Witness ==
  /\ ret.op = "extractFunctions"
  /\ ret.content = "function f() } {\n{\n}"
  /\ Len(ret.value) = 1
  /\ ret.value[1].line_start = 1
  /\ ret.value[1].line_end = 1

\* the extracted records start on exactly the lines that match one of the
\* two patterns
ScansEveryLine ==
  LET lines == SplitLines(ret.content)
  IN  /\ \A i \in 1..Len(lines) :
           (\E k \in 1..Len(ret.value) : ret.value[k].line_start = i)
             <=> \/ FunctionMatch(Trim(lines[i])) # <<>>
                 \/ ArrowMatch(Trim(lines[i])) # <<>>
      /\ \A k \in 1..Len(ret.value) :
           ret.value[k].line_start \in 1..Len(lines)

\* C24 as stated: the extractor returns no record for a language other than
\* "javascript", "typescript" and null, whatever the content, and scans every
\* line for these three.
C24_OnlyThreeLanguagesScanned ==
  ret.op = "extractFunctions" =>
    IF ret.language \in {Some("javascript"), Some("typescript"), Null}
    THEN ScansEveryLine
    ELSE ret.value = <<>>

\* C24, amended: the extractor returns no record for a language other than
\* "javascript", "typescript", the empty string and null, whatever the
\* content, and scans every line for these four.
C24_OnlyFourLanguagesScanned ==
  ret.op = "extractFunctions" =>
    IF ret.language \in {Some("javascript"), Some("typescript"), Some(""),
                         Null}
    THEN ScansEveryLine
    ELSE ret.value = <<>>

\* with the empty string as language the functions of lines 1 and 2 are
\* extracted
C24_Witness ==
  /\ ret.op = "extractFunctions"
  /\ ret.language = Some("")
  /\ ret.content = "function f() \n  let h = (y) => y;"
  /\ Len(ret.value) = 2
  /\ ret.value[1].name = "f" /\ ret.value[1].line_start = 1
  /\ ret.value[2].name = "h" /\ ret.value[2].line_start = 2

\* C25: every record the extractor produces for a content of L lines (L is
\* the number of line breaks plus 1) has 1 <= line_start <= line_end <= L;
\* the records come in the order of their line_start, and no two of them
\* start on the same line.
C25_RecordsWithinContentInLineOrder ==
  ret.op = "extractFunctions" =>
    LET L == Cardinality({ i \in 1..Len(ret.content) :
                             CharAt(ret.content, i) = "\n" }) + 1
    IN  /\ \A k \in 1..Len(ret.value) :
             /\ 1 <= ret.value[k].line_start
             /\ ret.value[k].line_start <= ret.value[k].line_end
             /\ ret.value[k].line_end <= L
        /\ \A k \in 1..(Len(ret.value) - 1) :
             ret.value[k].line_start < ret.value[k + 1].line_start

\* a function of lines 1 to 3 in a content of four lines, the last one empty
C25_Witness ==
  /\ ret.op = "extractFunctions"
  /\ ret.content = "export async function g(x)\n{\n}\n"
  /\ Len(ret.value) = 1
  /\ ret.value[1].name = "g"
  /\ ret.value[1].line_start = 1 /\ ret.value[1].line_end = 3

\* the summary made of its opening sentence for the given language word and
\* the clauses whose signal the content has, in their fixed order
SummaryOf(word, content) ==
  LET N == Cardinality({ i \in 1..Len(content) :
                           CharAt(content, i) = "\n" }) + 1
      Has(p) == \E i \in 1..Len(content) : StartsWithAt(content, p, i)
  IN  "This " \o word \o " file contains " \o ToString(N) \o " lines."
        \o (IF Has("import") \/ Has("require")
            THEN " It includes external dependencies." ELSE "")
        \o (IF Has("export") \/ Has("module.exports")
            THEN " It exports functionality for use by other modules."
            ELSE "")
        \o (IF Has("class ") \/ Has("interface ")
            THEN " It defines classes or interfaces." ELSE "")
        \o (IF Has("function ") \/ Has("const ") \/ Has("let ")
            THEN " It contains function definitions." ELSE "")

\* C26 as stated: the summary is "This <language> file contains <N> lines."
\* with the word code for an absent (null) language and N the number of
\* lines, then the clauses for dependencies, exports, classes or interfaces
\* and function definitions, in this order, each exactly when the content has
\* its signal, and nothing behind them.
C26_SummaryOfLanguageOrCode ==
  ret.op = "generateAISummary" =>
    ret.value =
      SummaryOf(IF ret.language = Null THEN "code" ELSE Val(ret.language),
                ret.content)

\* C26, amended: as stated, with the word code for a language that is null
\* or the empty string.
C26_SummaryOfNonEmptyLanguageOrCode ==
  ret.op = "generateAISummary" =>
    ret.value =
      SummaryOf(IF ret.language \in {Null, Some("")}
                THEN "code" ELSE Val(ret.language),
                ret.content)

\* a content of two lines with an import and a const, and the empty string
\* as language
C26_Witness ==
  /\ ret.op = "generateAISummary"
  /\ ret.language = Some("")
  /\ ret.content = "import\nconst "
  /\ ret.value = "This code file contains 2 lines. It includes external dependencies. It contains function definitions."

-----------------------------------------------------------------------------
(* Properties of extractKeywords, under SpecKeywords *)

\* the greatest runs of word characters of s, from left to right
RECURSIVE WordRunsFrom(_, _)
WordRunsFrom(s, i) ==
  LET starts == { k \in i..Len(s) : IsWord(CharAt(s, k)) }
  IN  IF starts = {} THEN <<>>
      ELSE LET b == Least(starts)
               ends == { k \in b..Len(s) :
                           k = Len(s) \/ ~IsWord(CharAt(s, k + 1)) }
               e == Least(ends)
           IN  <<SubSeq(s, b, e)>> \o WordRunsFrom(s, e + 1)

\* the words of the question that count as keywords
BaseKeywordsOf(question) ==
  LET Counts(word) == Len(word) > 2 /\ word \notin stopWords
  IN  SelectSeq(WordRunsFrom(ToLowerCase(question), 1), Counts)

\* the terms of a family when one of its two trigger words is a base keyword
FamilyOf(base, trigger1, trigger2, terms) ==
  IF \E k \in 1..Len(base) : base[k] \in {trigger1, trigger2}
  THEN terms ELSE <<>>

\* the base keywords and behind them the terms of the triggered families
ExpandedKeywordsOf(question) ==
  LET base == BaseKeywordsOf(question)
  IN  base
      \o FamilyOf(base, "authentication", "authenticate",
                  <<"auth", "login", "user", "validate", "credential">>)
      \o FamilyOf(base, "security", "secure",
                  <<"vulnerability", "validation", "sanitize", "xss",
                    "injection">>)
      \o FamilyOf(base, "performance", "optimize",
                  <<"slow", "speed", "efficiency", "complexity">>)

\* the first occurrences of the entries of seq, in their order
FirstOccurrences(seq) ==
  LET first == { k \in 1..Len(seq) : \A j \in 1..(k - 1) : seq[j] # seq[k] }
      Rank(k) == Cardinality({ j \in first : j <= k })
  IN  [n \in 1..Cardinality(first) |->
         seq[CHOOSE k \in first : Rank(k) = n]]

\* C27: the keyword list of a question has no entry twice and at most 15
\* entries, every entry has more than 2 characters and is no stop word, and
\* the list is made of the base keywords in the order of the question and
\* behind them the terms of each family (authentication, security,
\* performance) whose trigger word is a base keyword, without repeats, cut
\* after 15.
C27_KeywordsAreBaseThenFamilies ==
  ret.op = "extractKeywords" =>
    /\ \A j, k \in 1..Len(ret.value) : j # k => ret.value[j] # ret.value[k]
    /\ Len(ret.value) <= KeywordLimit
    /\ \A k \in 1..Len(ret.value) :
         Len(ret.value[k]) > 2 /\ ret.value[k] \notin stopWords
    /\ ret.value =
         SubSeq(FirstOccurrences(ExpandedKeywordsOf(ret.content)), 1,
                Min(KeywordLimit,
                    Len(FirstOccurrences(ExpandedKeywordsOf(ret.content)))))

\* thirteen base keywords with the triggers optimize and authentication: the
\* list holds them and the first two terms of the authentication family, and
\* the cut leaves out the rest
C27_Witness ==
  /\ ret.op = "extractKeywords"
  /\ ret.content =
       "aaa bbb ccc ddd eee fff ggg hhh iii jjj kkk Can we optimize Authentication? "
  /\ Len(ret.value) = 15
  /\ ret.value[12] = "optimize"
  /\ ret.value[13] = "authentication"
  /\ ret.value[14] = "auth"
  /\ ret.value[15] = "login"

-----------------------------------------------------------------------------
(* Properties of the file selection of naturalLanguageQuery, under *)
(* SpecSelection *)

\* text contains part, whatever the case of the letters
ContainsAnyCase(text, part) == Includes(ToLowerCase(text), ToLowerCase(part))

\* the file is selected by containment, in the mode the input calls for
SelectedByContainment(file, input) ==
  LET keywords == extractKeywords(input.question)
  IN  /\ file.repository_id = input.repository_id
      /\ IF Len(input.context_files) > 0
         THEN \E k \in 1..Len(input.context_files) :
                ContainsAnyCase(file.path, input.context_files[k])
         ELSE IF Len(keywords) > 0
         THEN \E k \in 1..Len(keywords) :
                \/ ContainsAnyCase(file.path, keywords[k])
                \/ ContainsAnyCase(file.content, keywords[k])
                \/ /\ file.ai_summary # Null
                   /\ ContainsAnyCase(Val(file.ai_summary), keywords[k])
         ELSE TRUE

\* C28: the files of an answer are selected in one of three modes: with
\* context files given, the files of the repository whose path contains one
\* of them, whatever the question; else, with keywords, the files whose path,
\* content or ai_summary contains a keyword; else every file of the
\* repository.  At most 10 files are selected, and related_files holds the
\* paths of the first 5 of them in their order.
C28_FilesSelectedByContainment ==
  QueryReturned =>
    LET Selected(file) == SelectedByContainment(file, ret.input)
        files == Take(SelectSeq(code_files, Selected), FileLimit)
        related == Take(files, RelatedFileLimit)
    IN  ret.value.related_files
          = [k \in 1..Len(related) |-> related[k].path]

-----------------------------------------------------------------------------
(* Properties of the order of key_functions, under SpecKeyFunctions *)

\* the function rows the last naturalLanguageQuery call fetched
FetchedFunctions == Take(FunctionsOfSelected, FunctionFetchLimit)

\* the keywords of the last question
QuestionKeywords == extractKeywords(ret.input.question)

\* the row names a keyword in its name, signature or explanation
RowMatches(row, keywords) ==
  \E k \in 1..Len(keywords) :
    \/ Includes(ToLowerCase(row.name), keywords[k])
    \/ Includes(ToLowerCase(row.signature), keywords[k])
    \/ /\ row.ai_explanation # Null
       /\ Includes(ToLowerCase(Val(row.ai_explanation)), keywords[k])

\* for each fetched row, whether it matches a keyword of the question
FetchedMatches ==
  LET fetched == FetchedFunctions
      keywords == QuestionKeywords
  IN  [i \in 1..Len(fetched) |-> RowMatches(fetched[i], keywords)]

\* the number of rows that go before row i, given which rows match: with i
\* matching, the matching rows fetched before it; else every matching row
\* and the non-matching rows fetched before it
RowsBefore(matches, i) ==
  IF matches[i]
  THEN Cardinality({j \in 1..(i - 1) : matches[j]})
  ELSE Cardinality({j \in DOMAIN matches : matches[j]})
         + Cardinality({j \in 1..(i - 1) : ~matches[j]})

\* C29: key_functions has at most 5 entries, each the name of a fetched
\* function row of a selected file; with keywords, the fetched rows that
\* match a keyword come first in fetch order, then the rows that do not, so
\* that no row without a match stands before or in place of a matching one.
C29_MatchingFunctionsFirst ==
  QueryReturned =>
    LET key == ret.value.key_functions
        fetched == FetchedFunctions
        matches == FetchedMatches
        n == Len(fetched)
    IN  /\ Len(key) <= 5
        /\ \A k \in 1..Len(key) : \E i \in 1..n : key[k] = fetched[i].name
        /\ Len(QuestionKeywords) > 0 =>
             /\ Len(key) = Min(n, 5)
             /\ \A i \in 1..n :
                  RowsBefore(matches, i) < 5 =>
                    key[RowsBefore(matches, i) + 1] = fetched[i].name

\* more than 5 rows are fetched, the first of them matches no keyword and a
\* later one does; key_functions begins with the matching name and goes on
\* with the name of the first row
C29_Witness ==
  /\ QueryReturned
  /\ Len(QuestionKeywords) > 0
  /\ LET key == ret.value.key_functions
         fetched == FetchedFunctions
         matches == FetchedMatches
     IN  /\ Len(fetched) > 5
         /\ ~matches[1]
         /\ \E i \in 2..Len(fetched) :
              /\ matches[i]
              /\ RowsBefore(matches, i) = 0
              /\ key[1] = fetched[i].name
              /\ fetched[i].name # fetched[1].name
         /\ Len(key) = 5
         /\ \E k \in 2..5 : key[k] = fetched[1].name

-----------------------------------------------------------------------------
(* Properties of the suggestions, under SpecSuggestions *)

\* the words of the performance, error and security families
FamilyWords ==
  { "performance", "slow", "optimize", "error", "bug", "issue",
    "security", "secure", "vulnerability" }

\* the two suggestions given when nothing else applies
FallbackSuggestions ==
  { "Review the identified files for potential improvements",
    "Consider adding more detailed documentation to the codebase" }

\* the file has an ai_summary: a text that is not empty
HasSummary(file) == file.ai_summary # Null /\ Val(file.ai_summary) # ""

====
